---- MODULE Spec2Model ----
(***************************************************************************)
(* Model of the Metadata Query Creator node of the MdH KNIME extension     *)
(* (src/src/nodes/query_creator.py), and of the nodes the extension loads  *)
(* (harvest, statistic, query, configuration), their helper functions and  *)
(* their port objects.                                                     *)
(*                                                                         *)
(* query_creator.py reads FlowVariables.QUERY and                          *)
(* Messages.QUERY_VALID_FILTER_LOGIC, which the copies of                  *)
(* utils/parameter.py and utils/message.py under src/ do not declare; the  *)
(* module is not imported by extension.py and cannot be loaded without     *)
(* them, so the two are modelled from their uses: a dict key and a message *)
(* template with the fields filter_key and filter_logic.                   *)
(*                                                                         *)
(* The nodes extension.py imports are modelled as they run on the          *)
(* declarations under src/: a name a class does not declare                *)
(* (FlowVariables.SELECTED_CORES, self.core) raises AttributeError where   *)
(* the code reaches it.                                                    *)
(*                                                                         *)
(* A Python str is a sequence of one-character strings, so that the        *)
(* regular expression r'f\d+', str.split and str.join are computed         *)
(* character by character.  Tags and targets are only tested for           *)
(* emptiness or copied, and stay opaque strings.                           *)
(***************************************************************************)
EXTENDS Integers, Sequences, FiniteSets, TLC

(* ------------------------------ bounds -------------------------------- *)

\* Stands for _MAX_NUM_FILTERS (20 in the source): __init__ creates the
\* slots f0 .. f<MaxNumFilters>.
MaxNumFilters == 2
\* Longest filter_logic the user types.
MaxLen == 4
\* Longest selected_tags the user types.
MaxTagsLen == 5
\* Largest limit / offset the user enters.
MaxLimit == 2
\* Longest string handed to split_global_search_cores.
MaxCoresLen == 3
\* Largest task id schedule_add hands out.
MaxTaskId == 2
\* Number of edits the user makes to slot fields other than the tag.
MaxFieldEdits == 1

(* --------------------------- input alphabets -------------------------- *)

LogicChars == {"f", "0", "1", "2", " "}
TagsChars == {"a", ",", " "}
TagValues == {"", "a"}
TargetValues == {"", "x"}

(* ------------------------ Python value helpers ------------------------ *)

\* Python's None and a present int, kept apart from each other.
PyNone == <<>>
PyInt(n) == <<n>>

Digits == <<"0", "1", "2", "3", "4", "5", "6", "7", "8", "9">>
IsDigit(c) == \E d \in 1..10 : Digits[d] = c

RECURSIVE IntToStr(_)
\* str(i) of a non-negative int, as used by the f-string f'f{i}'.
IntToStr(i) ==
    IF i < 10 THEN <<Digits[i + 1]>>
    ELSE IntToStr(i \div 10) \o <<Digits[(i % 10) + 1]>>

\* f'f{i}': the attribute name of slot i.
FilterKey(i) == <<"f">> \o IntToStr(i)

(* ------------------- utils: FlowVariables, Messages ------------------- *)

\* FlowVariables.QUERY: the key under which execute hands out the query.
QUERY == "query"

\* Messages.QUERY_VALID_FILTER_LOGIC.format(filter_key=..., filter_logic=...)
QUERY_VALID_FILTER_LOGIC(filter_key, filter_logic) ==
    [filter_key |-> filter_key, filter_logic |-> filter_logic]

(* ----------------------- enums of query_creator ----------------------- *)

\* TagTypeOptions: the member names, which is what filter.value_type holds.
TagTypeOptions == {"STRING", "NUMBER", "DATE"}

\* KnimeToMdHOperationsMap: member name -> protocol code.
KnimeToMdHOperationsMap ==
    [ TAG_EXISTS |-> "EXISTS", TAG_NOT_EXISTS |-> "NOT_EXISTS",
      VALUE_EMPTY |-> "EMPTY", VALUE_NOT_EMPTY |-> "NOT_EMPTY",
      VALUE_CONTAINS |-> "CONTAINS", VALUE_NOT_CONTAINS |-> "NOT_CONTAINS",
      VALUE_IS_EQUAL |-> "EQUAL", VALUE_IS_NOT_EQUAL |-> "NOT_EQUAL",
      VALUE_IS_GREATER |-> "GREATER", VALUE_IS_SMALLER |-> "SMALLER" ]

StringOperationOptions ==
    { "TAG_EXISTS", "TAG_NOT_EXISTS", "VALUE_EMPTY", "VALUE_NOT_EMPTY",
      "VALUE_CONTAINS", "VALUE_NOT_CONTAINS", "VALUE_IS_EQUAL",
      "VALUE_IS_NOT_EQUAL" }

NumberOperationOptions ==
    { "TAG_EXISTS", "TAG_NOT_EXISTS", "VALUE_EMPTY", "VALUE_NOT_EMPTY",
      "VALUE_IS_EQUAL", "VALUE_IS_NOT_EQUAL", "VALUE_IS_GREATER",
      "VALUE_IS_SMALLER" }

\* The date group offering the operations of the number group.
DateOperationOptionsAsNumber ==
    { "TAG_EXISTS", "TAG_NOT_EXISTS", "VALUE_EMPTY", "VALUE_NOT_EMPTY",
      "VALUE_IS_EQUAL", "VALUE_IS_NOT_EQUAL", "VALUE_IS_GREATER",
      "VALUE_IS_SMALLER" }

DateOperationOptions ==
    { "VALUE_EMPTY", "VALUE_NOT_EMPTY", "VALUE_IS_EQUAL",
      "VALUE_IS_NOT_EQUAL", "VALUE_IS_GREATER", "VALUE_IS_SMALLER" }

\* The operations for which the dialog hides the Target field
\* (the knext.OneOf(...) / Effect.HIDE rules of the string and number groups).
TargetHidden == {"TAG_EXISTS", "TAG_NOT_EXISTS", "VALUE_EMPTY", "VALUE_NOT_EMPTY"}

\* The three parameter groups of a slot and the operations each offers.
Groups == {"string", "number", "date"}
OperationOptions(g) ==
    CASE g = "string" -> StringOperationOptions
      [] g = "number" -> NumberOperationOptions
      [] g = "date" -> DateOperationOptions

\* The targets a group's Target field takes: a str for the string and number
\* groups (StringParameter), None or a datetime for the date group
\* (DateTimeParameter).
ADateTime == <<2024>>
GroupTargets(g) ==
    IF g = "date" THEN {PyNone, ADateTime} ELSE TargetValues

\* str(operation_group.target): a str is returned as it is, None gives
\* 'None', a datetime its ISO form with a space.
PyStr(g, target) ==
    IF g # "date" THEN target
    ELSE IF target = PyNone THEN "None"
    ELSE "2024-01-01 00:00:00"

(* ------------------------------ the slots ----------------------------- *)

\* inject_string_parameters / inject_number_parameters /
\* inject_date_parameters: the default operation and target of each group.
DefaultGroup(g) ==
    CASE g = "string" -> [operation |-> "VALUE_CONTAINS", target |-> ""]
      [] g = "number" -> [operation |-> "VALUE_IS_EQUAL", target |-> ""]
      [] g = "date" -> [operation |-> "VALUE_IS_EQUAL", target |-> PyNone]

\* inject_filter_parameters: a freshly created slot.
DefaultFilter ==
    [ tag |-> "", value_type |-> "STRING",
      string |-> DefaultGroup("string"),
      number |-> DefaultGroup("number"),
      date |-> DefaultGroup("date") ]

\* __init__: f0 and then range(1, _MAX_NUM_FILTERS + 1), i.e. the slot ids
\* 0 .. _MAX_NUM_FILTERS.
SlotIds == 0..MaxNumFilters

\* vars(self): the attribute names in the order __init__ set them.
InstanceVars == [n \in 1..(MaxNumFilters + 1) |-> n - 1]

\* The group record of slot f named g.
GroupOf(f, g) ==
    CASE g = "string" -> f.string
      [] g = "number" -> f.number
      [] g = "date" -> f.date

(* ------------------------ re.findall(r'f\d+') ------------------------- *)

\* f\d in place of f\d+: the match stops after its first digit.
DigitsEndFirst(s, i) == i

RECURSIVE DigitsEnd(_, _)
\* Greedy \d+: the last index of the run of digits that starts at i.
DigitsEnd(s, i) ==
    IF i + 1 <= Len(s) /\ IsDigit(s[i + 1]) THEN DigitsEnd(s, i + 1) ELSE i

RECURSIVE FindAllFrom(_, _)
\* The leftmost, non-overlapping matches of f\d+ in s from index i on.
FindAllFrom(s, i) ==
    IF i > Len(s) THEN <<>>
    ELSE IF s[i] = "f" /\ i + 1 <= Len(s) /\ IsDigit(s[i + 1])
         THEN LET e == DigitsEnd(s, i + 1)
              IN  <<SubSeq(s, i, e)>> \o FindAllFrom(s, e + 1)
         ELSE FindAllFrom(s, i + 1)

\* re.findall(_RE_FILTER_MATCHES, s)
FindAll(s) == FindAllFrom(s, 1)

\* set(re.findall(self._RE_FILTER_MATCHES, filter_logic))
FilterMatches(s) == LET all == FindAll(s) IN {all[k] : k \in 1..Len(all)}

(* ------------------------ str.split and str.join ---------------------- *)

\* The separator of selected_tags.split(', ').
TagsSep == <<",", " ">>

\* sep occurs in s at index i.
OccursAt(s, sep, i) ==
    /\ i + Len(sep) - 1 <= Len(s)
    /\ \A k \in 1..Len(sep) : s[i + k - 1] = sep[k]

RECURSIVE Find(_, _, _)
\* str.find: the lowest index >= i where sep occurs in s, 0 when none.
Find(s, sep, i) ==
    IF i + Len(sep) - 1 > Len(s) THEN 0
    ELSE IF OccursAt(s, sep, i) THEN i
    ELSE Find(s, sep, i + 1)

RECURSIVE SplitNonEmpty(_, _)
\* A split that drops the empty pieces, as a split on whitespace would.
SplitNonEmpty(s, sep) ==
    LET p == Find(s, sep, 1)
        head == IF p = 0 THEN s ELSE SubSeq(s, 1, p - 1)
        rest == IF p = 0 THEN <<>>
                ELSE SplitNonEmpty(SubSeq(s, p + Len(sep), Len(s)), sep)
    IN  IF head = <<>> THEN rest ELSE <<head>> \o rest

RECURSIVE Split(_, _)
\* s.split(sep)
Split(s, sep) ==
    LET p == Find(s, sep, 1)
    IN  IF p = 0 THEN <<s>>
        ELSE <<SubSeq(s, 1, p - 1)>> \o Split(SubSeq(s, p + Len(sep), Len(s)), sep)

RECURSIVE Join(_, _)
\* sep.join(parts)
Join(parts, sep) ==
    IF Len(parts) = 0 THEN <<>>
    ELSE IF Len(parts) = 1 THEN parts[1]
    ELSE parts[1] \o sep \o Join(Tail(parts), sep)

(* ------------------------------- state -------------------------------- *)

VARIABLES
    slots,          \* f0 .. f<MaxNumFilters>: the filter parameter groups
    filter_logic,   \* filter_configuration.filter_logic
    selected_tags,  \* filter_configuration.selected_tags
    limit,          \* filter_configuration.limit
    offset,         \* filter_configuration.offset
    only_count,     \* filter_configuration.only_count
    checked,        \* how configure ended on the current settings, if it ran
    built,          \* how execute ended on the current settings, if it ran
    field_edits,    \* edits made so far to slot fields other than the tag
    failed,         \* history: an execute call has raised since construction
    harvest,        \* the Harvest node: its parameters and its last run
    statistic,      \* the Statistic node: its parameters and its last run
    query_node,     \* a query node: its kind, parameters and last run
    core_config,    \* the Core configuration node
    gs_config,      \* the Global Search configuration node
    util            \* a call of one of the helper functions and its result

vars == <<slots, filter_logic, selected_tags, limit, offset, only_count,
          checked, built, field_edits, failed,
          harvest, statistic, query_node, core_config, gs_config, util>>

\* The Metadata Query Creator node, and the other nodes and helpers.
creator == <<slots, filter_logic, selected_tags, limit, offset, only_count,
             checked, built, field_edits, failed>>
others == <<harvest, statistic, query_node, core_config, gs_config, util>>

settings == <<slots, filter_logic, selected_tags, limit, offset, only_count>>

(* --------------------------- _get_filters ----------------------------- *)

\* A slot is listed only when every lower slot has a tag too (the rule that
\* shows slot i+1 in the dialog), instead of on its own tag alone.
IsListedChained(sl, i) == \A j \in 0..i : sl[j].tag # ""

\* The test of the loop body of _get_filters: the key starts with 'f' and
\* the slot's tag is not empty (the int() probe changes nothing).
IsListed(sl, i) == FilterKey(i)[1] = "f" /\ sl[i].tag # ""

\* _get_filters: the (filter_key, filter) pairs, in the order of vars(self).
get_filters(sl) ==
    LET ids == SelectSeq(InstanceVars, LAMBDA i : IsListed(sl, i))
    IN  [k \in 1..Len(ids) |->
            [filter_key |-> FilterKey(ids[k]), filter |-> sl[ids[k]]]]

(* -------------------------- call outcomes ----------------------------- *)

RECURSIVE Strip(_)
\* s without its leading and trailing blanks, as str.strip gives it.
Strip(s) ==
    IF s = <<>> THEN s
    ELSE IF Head(s) = " " THEN Strip(Tail(s))
    ELSE IF s[Len(s)] = " " THEN Strip(SubSeq(s, 1, Len(s) - 1))
    ELSE s

\* The expression tidied up on its way into the query.
NewQueryStripped(fl, st, lim, off, oc) ==
    [ filter_logic |-> Strip(fl),
      selected_tags |-> Split(st, TagsSep),
      limit |-> IF lim # 0 THEN PyInt(lim) ELSE PyNone,
      offset |-> off,
      only_count |-> oc,
      filters |-> <<>> ]

\* The limit passed on as it is, 0 included.
NewQueryKeepLimit(fl, st, lim, off, oc) ==
    [ filter_logic |-> fl,
      selected_tags |-> Split(st, TagsSep),
      limit |-> PyInt(lim),
      offset |-> off,
      only_count |-> oc,
      filters |-> <<>> ]

\* The 'query' dict before any filter is appended (execute, lines 405-412).
NewQuery(fl, st, lim, off, oc) ==
    [ filter_logic |-> fl,
      selected_tags |-> Split(st, TagsSep),
      limit |-> IF lim # 0 THEN PyInt(lim) ELSE PyNone,
      offset |-> off,
      only_count |-> oc,
      filters |-> <<>> ]

NoQuery == NewQuery(<<>>, <<>>, 0, 0, FALSE)

NoMessage == QUERY_VALID_FILTER_LOGIC(<<>>, <<>>)

\* No call was made on the current settings.
NoCall ==
    [ kind |-> "none", message |-> NoMessage, warnings |-> <<>>,
      data |-> (QUERY :> NoQuery) ]

\* configure returned the port spec, after the set_warning calls 'warnings'.
ReturnedSpec(warnings) ==
    [NoCall EXCEPT !.kind = "returned", !.warnings = warnings]

\* execute returned MdHMetadataQueryPortObject(spec, {FlowVariables.QUERY: query}).
ReturnedQuery(query) ==
    [NoCall EXCEPT !.kind = "returned", !.data = (QUERY :> query)]

\* raise RuntimeError(message)
RaisedRuntimeError(message) ==
    [NoCall EXCEPT !.kind = "raised", !.message = message]

(* ------------------------------ configure ----------------------------- *)

\* The loop left after its first warning.
WarnedFirst(filters, filter_matches) ==
    LET w == SelectSeq(filters, LAMBDA f : f.filter_key \notin filter_matches)
    IN  IF w = <<>> THEN <<>> ELSE <<w[1]>>

\* The test of configure inverted: a warning for each filter that is named.
WarnedMatched(filters, filter_matches) ==
    SelectSeq(filters, LAMBDA f : f.filter_key \in filter_matches)

\* The listed filters configure warns about: those whose key is not in
\* filter_matches, in the order of the loop.
Warned(filters, filter_matches) ==
    SelectSeq(filters, LAMBDA f : f.filter_key \notin filter_matches)

\* A configure that raises where execute does.
ConfigureOutcomeRaising(sl, fl) ==
    LET warned == Warned(get_filters(sl), FilterMatches(fl))
    IN  IF warned # <<>>
        THEN RaisedRuntimeError(QUERY_VALID_FILTER_LOGIC(warned[1].filter_key, fl))
        ELSE ReturnedSpec(<<>>)

\* configure: one set_warning per listed filter that filter_logic does not
\* name; the port spec is returned in every case.
ConfigureOutcome(sl, fl) ==
    LET filter_matches == FilterMatches(fl)
        warned == Warned(get_filters(sl), filter_matches)
    IN  ReturnedSpec([n \in 1..Len(warned) |->
                        QUERY_VALID_FILTER_LOGIC(warned[n].filter_key, fl)])

(* ------------------------------- execute ------------------------------ *)

\* Only the first listed filter is checked.
UnmatchedFirst(filters, filter_matches) ==
    {k \in 1..Len(filters) : k = 1 /\ filters[k].filter_key \notin filter_matches}

\* No filter is checked.
UnmatchedNone(filters, filter_matches) == {}

\* A stricter check: an id in filter_matches that no listed filter has fails
\* the listed filters too.
UnmatchedOrDangling(filters, filter_matches) ==
    {k \in 1..Len(filters) :
        \/ filters[k].filter_key \notin filter_matches
        \/ \E m \in filter_matches :
              \A j \in 1..Len(filters) : filters[j].filter_key # m}

\* The positions of the listed filters whose key is not in filter_matches.
Unmatched(filters, filter_matches) ==
    {k \in 1..Len(filters) : filters[k].filter_key \notin filter_matches}

\* The last position instead of the first.
Greatest(S) == CHOOSE k \in S : \A j \in S : k >= j

\* The first position of S: the iteration of the loop that raises.
Least(S) == CHOOSE k \in S : \A j \in S : k <= j

\* The group execute reads for a slot: string, unless value_type is NUMBER
\* or DATE (lines 423-427).
GroupName(f) ==
    IF f.value_type = "DATE" THEN "date"
    ELSE IF f.value_type = "NUMBER" THEN "number"
    ELSE "string"

\* The string group read whatever the value_type.
OperationGroupString(f) == f.string

OperationGroup(f) == GroupOf(f, GroupName(f))

\* The entry with the default value_type instead of the slot's.
FilterEntryDefaultType(f) ==
    [ tag |-> f.tag,
      value_type |-> "STRING",
      operation |-> KnimeToMdHOperationsMap[OperationGroup(f).operation],
      target |-> PyStr(GroupName(f), OperationGroup(f).target) ]

\* The dict appended to query['filters'] for one listed filter (lines 429-434).
FilterEntry(f) ==
    [ tag |-> f.tag,
      value_type |-> f.value_type,
      operation |-> KnimeToMdHOperationsMap[OperationGroup(f).operation],
      target |-> PyStr(GroupName(f), OperationGroup(f).target) ]

\* An execute that refuses an empty target where the operation uses one.
ExecuteOutcomeValidating(sl, fl, st, lim, off, oc) ==
    LET query == NewQuery(fl, st, lim, off, oc)
        filter_matches == FilterMatches(fl)
        filters == get_filters(sl)
        unmatched == Unmatched(filters, filter_matches)
        untargeted == {k \in 1..Len(filters) :
                          /\ OperationGroup(filters[k].filter).operation \notin TargetHidden
                          /\ FilterEntry(filters[k].filter).target = ""}
    IN  IF unmatched \cup untargeted # {}
        THEN RaisedRuntimeError(
                 QUERY_VALID_FILTER_LOGIC(
                     filters[Least(unmatched \cup untargeted)].filter_key, fl))
        ELSE ReturnedQuery(
                 [query EXCEPT !.filters =
                     [k \in 1..Len(filters) |-> FilterEntry(filters[k].filter)]])

\* execute: the query dict is set up; the listed filters are taken in order,
\* the first whose key is not in filter_matches raises, the others are
\* appended; the port object holding the query is returned.
ExecuteOutcome(sl, fl, st, lim, off, oc) ==
    LET query == NewQuery(fl, st, lim, off, oc)
        filter_matches == FilterMatches(fl)
        filters == get_filters(sl)
        unmatched == Unmatched(filters, filter_matches)
    IN  IF unmatched # {}
        THEN RaisedRuntimeError(
                 QUERY_VALID_FILTER_LOGIC(filters[Least(unmatched)].filter_key, fl))
        ELSE ReturnedQuery(
                 [query EXCEPT !.filters =
                     [k \in 1..Len(filters) |-> FilterEntry(filters[k].filter)]])

(* ------------------------- the user's edits --------------------------- *)

\* Any edit of the settings makes the host drop what the last calls gave.
Edited ==
    /\ checked' = NoCall /\ built' = NoCall /\ failed' = failed
    /\ UNCHANGED others

SetTag(i, t) ==
    /\ slots[i].tag # t
    /\ slots' = [slots EXCEPT ![i].tag = t]
    /\ Edited
    /\ UNCHANGED <<filter_logic, selected_tags, limit, offset, only_count,
                   field_edits>>

SetValueType(i, vt) ==
    /\ slots[i].value_type # vt
    /\ field_edits < MaxFieldEdits
    /\ field_edits' = field_edits + 1
    /\ slots' = [slots EXCEPT ![i].value_type = vt]
    /\ Edited
    /\ UNCHANGED <<filter_logic, selected_tags, limit, offset, only_count>>

WithGroup(f, g, grp) ==
    CASE g = "string" -> [f EXCEPT !.string = grp]
      [] g = "number" -> [f EXCEPT !.number = grp]
      [] g = "date" -> [f EXCEPT !.date = grp]

SetOperation(i, g, op) ==
    /\ GroupOf(slots[i], g).operation # op
    /\ field_edits < MaxFieldEdits
    /\ field_edits' = field_edits + 1
    /\ slots' = [slots EXCEPT
                   ![i] = WithGroup(@, g, [GroupOf(@, g) EXCEPT !.operation = op])]
    /\ Edited
    /\ UNCHANGED <<filter_logic, selected_tags, limit, offset, only_count>>

SetTarget(i, g, t) ==
    /\ GroupOf(slots[i], g).target # t
    /\ field_edits < MaxFieldEdits
    /\ field_edits' = field_edits + 1
    /\ slots' = [slots EXCEPT
                   ![i] = WithGroup(@, g, [GroupOf(@, g) EXCEPT !.target = t])]
    /\ Edited
    /\ UNCHANGED <<filter_logic, selected_tags, limit, offset, only_count>>

TypeFilterLogic(c) ==
    /\ Len(filter_logic) < MaxLen
    /\ filter_logic' = Append(filter_logic, c)
    /\ Edited
    /\ UNCHANGED <<slots, selected_tags, limit, offset, only_count, field_edits>>

EraseFilterLogic ==
    /\ Len(filter_logic) > 0
    /\ filter_logic' = SubSeq(filter_logic, 1, Len(filter_logic) - 1)
    /\ Edited
    /\ UNCHANGED <<slots, selected_tags, limit, offset, only_count, field_edits>>

TypeSelectedTags(c) ==
    /\ Len(selected_tags) < MaxTagsLen
    /\ selected_tags' = Append(selected_tags, c)
    /\ Edited
    /\ UNCHANGED <<slots, filter_logic, limit, offset, only_count, field_edits>>

EraseSelectedTags ==
    /\ Len(selected_tags) > 0
    /\ selected_tags' = SubSeq(selected_tags, 1, Len(selected_tags) - 1)
    /\ Edited
    /\ UNCHANGED <<slots, filter_logic, limit, offset, only_count, field_edits>>

\* IntParameter(min_value=0): the host accepts no negative limit or offset.
SetLimit(n) ==
    /\ limit # n
    /\ limit' = n
    /\ Edited
    /\ UNCHANGED <<slots, filter_logic, selected_tags, offset, only_count,
                   field_edits>>

SetOffset(n) ==
    /\ offset # n
    /\ offset' = n
    /\ Edited
    /\ UNCHANGED <<slots, filter_logic, selected_tags, limit, only_count,
                   field_edits>>

SetOnlyCount ==
    /\ only_count' = ~only_count
    /\ Edited
    /\ UNCHANGED <<slots, filter_logic, selected_tags, limit, offset,
                   field_edits>>

(* ------------------------- the node's handlers ------------------------ *)

\* configure(config_context)
Configure ==
    /\ checked' = ConfigureOutcome(slots, filter_logic)
    /\ UNCHANGED <<settings, built, field_edits, failed, others>>

\* execute(exec_context)
Execute ==
    /\ built' = ExecuteOutcome(slots, filter_logic, selected_tags, limit,
                               offset, only_count)
    /\ UNCHANGED <<settings, checked, field_edits, failed, others>>

\* A failure after which every later call fails too, whatever the settings.
ExecuteSticky ==
    /\ built' = IF failed
                THEN RaisedRuntimeError(
                         QUERY_VALID_FILTER_LOGIC(FilterKey(0), filter_logic))
                ELSE ExecuteOutcome(slots, filter_logic, selected_tags, limit,
                                    offset, only_count)
    /\ failed' = (failed \/ built'.kind = "raised")
    /\ UNCHANGED <<settings, checked, field_edits, others>>

\* execute(exec_context), with the history of failures kept.
ExecuteRecorded ==
    /\ built' = ExecuteOutcome(slots, filter_logic, selected_tags, limit,
                               offset, only_count)
    /\ failed' = (failed \/ built'.kind = "raised")
    /\ UNCHANGED <<settings, checked, field_edits, others>>

(* ======================== the other nodes ============================= *)

(* --------------------- the MdH installation --------------------------- *)

\* The names the installation knows, and the names the user enters.
CoreNames == {"c", "d"}
GlobalSearchNames == {"g"}
InstanceNames == {"", "c", "g"}

\* Paths are strings too: the empty one, a relative one, an absolute one.
RelativePath == <<"t">>
AbsolutePath == <<"/", "t">>
Paths == {<<>>, RelativePath, AbsolutePath}

\* Task ids handed out by mdh.core.harvest.schedule_add.
TaskIds == 1..MaxTaskId

\* mdh.core.licensing.info(core): whether licenseData is there (not None)
\* and validKey; a key is not valid without licence data.
ValidLicence == [licenseData |-> TRUE, validKey |-> TRUE]
LicenceStates ==
    { [licenseData |-> FALSE, validKey |-> FALSE],
      [licenseData |-> TRUE, validKey |-> FALSE], ValidLicence }

\* An installation in which nothing exists; the fields are what the client
\* library reports when a node asks.
NoWorld ==
    [ available |-> TRUE,               \* FALSE: mdh raises MdHEnvironmentError
      global_searches |-> {},           \* mdh.global_search.main.get()
      running_global_searches |-> {},   \* ... get(only_running=True)
      running_cores |-> {},             \* mdh.core.main.get(only_running=True)
      files |-> {},                     \* the paths that are files
      task_id |-> 1,                    \* what schedule_add returns
      licences |-> [c \in CoreNames |-> ValidLicence] ]

\* The installations as far as instances go: a global search exists or not,
\* runs or not; each core runs or not; or mdh cannot reach the installation.
Instances ==
    UNION { { [NoWorld EXCEPT !.global_searches = gs,
                              !.running_global_searches = rgs,
                              !.running_cores = rc] :
                rgs \in SUBSET gs, rc \in SUBSET CoreNames } :
            gs \in SUBSET GlobalSearchNames }
    \cup { [NoWorld EXCEPT !.available = FALSE] }

\* Path.is_absolute()
is_absolute(path) == Len(path) > 0 /\ path[1] = "/"

\* Path.is_file()
is_file(path, w) == path \in w.files

\* is_absolute_file_path(path)
is_absolute_file_path(path, w) == is_absolute(path) /\ is_file(path, w)

\* get_running_mdh_core_names(): the empty list when mdh raises.
get_running_mdh_core_names(w) == IF w.available THEN w.running_cores ELSE {}

\* get_running_mdh_global_search_names(): the empty list when mdh raises.
get_running_mdh_global_search_names(w) ==
    IF w.available THEN w.running_global_searches ELSE {}

\* mdh_instance_is_running(name, is_global_search)
mdh_instance_is_running(name, is_global_search, w) ==
    IF is_global_search
    THEN name \in get_running_mdh_global_search_names(w)
    ELSE name \in get_running_mdh_core_names(w)

\* mdh_instance_is_global_search(name), where mdh does not raise.
mdh_instance_is_global_search(name, w) == name \in w.global_searches

(* ------------------------ how a run of a node ends -------------------- *)

\* A message and the name formatted into it ('' when there is none).
Message(text, arg) == [text |-> text, arg |-> arg]

ADD_RUNNING_INSTANCE == Message("Please add a running MdH Instance", "")
ADD_RUNNING_INSTANCE_BY_NAME(instance) ==
    Message("Please add a running MdH Instance called '{instance}'", instance)
ADD_RUNNING_CORE == Message("Please add a running MdH Core", "")
ADD_RUNNING_GLOBAL_SEARCH ==
    Message("Please add a running MdH Global Search", "")
EXISTING_GRAPHQL_FILE ==
    Message("Please provide an existing GraphQL file", "")
ACTIVE_LICENSE_BY_NAME(core) ==
    Message("MdH Core '{core}' does not have an active license", core)
VALID_LICENSE_BY_NAME(core) ==
    Message("MdH Core '{core}' does not have a valid license", core)
HARVEST_GLOBAL_SEARCH ==
    Message("Harvest tasks cannot be executed on a MdH Global Search", "")
QUERY_VALID_INPUT_FILE ==
    Message("Please provide a valid file to retrieve metadata from", "")
QUERY_VALID_DOWNLOAD_FORMAT ==
    Message("Please provide a valid download format", "")
QUERY_VALID_OUTPUT_FILE ==
    Message("Please provide an absolute file path for the output file", "")

\* str(err) of the error mdh raises when it cannot reach the installation.
EnvironmentErrorText == Message("MdHEnvironmentError", "")

\* No exception.
NoError == [type |-> "", message |-> Message("", "")]

\* The node did not run on the current parameters.
NoRun ==
    [ kind |-> "none",
      error |-> NoError,
      calls |-> <<>>,            \* the calls made to the client library
      warnings |-> <<>>,         \* the set_warning calls
      flow_variables |-> <<>>,   \* exec_context.flow_variables, as left
      input |-> <<>>,            \* the port data or flow variables received
      world |-> NoWorld ]        \* the installation the run met

\* The run met the installation w.
RunIn(w) == [NoRun EXCEPT !.world = w]

\* The run received 'input' and met the installation w.
RunOn(input, w) == [NoRun EXCEPT !.input = input, !.world = w]

\* return, after the calls made so far
Returned(run) == [run EXCEPT !.kind = "returned"]

\* raise type(message), after the calls made so far
Raised(run, type, message) ==
    [run EXCEPT !.kind = "raised",
                !.error = [type |-> type, message |-> message]]

\* A call of the client library: the function (module and name), the instance
\* and the argument.
Call(fn, instance, arg) == [fn |-> fn, instance |-> instance, arg |-> arg]

\* The run made one more call.
After(run, call) == [run EXCEPT !.calls = Append(@, call)]

(* ---------------------------- HarvestNode ----------------------------- *)

\* What the Harvest node meets: instances, files and the id of the new task.
HarvestWorlds ==
    { [i EXCEPT !.files = f, !.task_id = t] :
        i \in Instances, f \in SUBSET {RelativePath, AbsolutePath},
        t \in TaskIds }

\* Instance.name, MetadataHarvestParameter.input_task_file and .blocking at
\* their defaults.
DefaultHarvest ==
    [ name |-> "", input_task_file |-> <<>>, blocking |-> TRUE, run |-> NoRun ]

\* mdh.core.harvest.schedule_add and mdh.core.harvest.active_wait
schedule_add == <<"core.harvest", "schedule_add">>
active_wait == <<"core.harvest", "active_wait">>

\* A wait for the first task of the core, whatever schedule_add returned.
ScheduleAndWaitFirstTask(name, input_task_file, blocking, run) ==
    LET scheduled ==
            After(run, Call(schedule_add, name, input_task_file))
    IN  IF blocking
        THEN Returned(After(scheduled,
                            Call(active_wait, name, 1)))
        ELSE Returned(scheduled)

\* schedule_add, then active_wait on the id it returned when blocking is set.
ScheduleAndWait(name, input_task_file, blocking, run) ==
    LET task_id == run.world.task_id
        scheduled ==
            After(run, Call(schedule_add, name, input_task_file))
    IN  IF blocking
        THEN Returned(After(scheduled,
                            Call(active_wait, name, task_id)))
        ELSE Returned(scheduled)

\* The running check made before the Global Search check.
HarvestOutcomeRunningFirst(name, input_task_file, blocking, w) ==
    LET run == RunIn(w)
    IN  IF name = "" THEN Raised(run, "RuntimeError", ADD_RUNNING_CORE)
        ELSE IF ~w.available
        THEN Raised(run, "RuntimeError", EnvironmentErrorText)
        ELSE LET is_global_search == mdh_instance_is_global_search(name, w)
             IN  IF ~mdh_instance_is_running(name, is_global_search, w)
                 THEN Raised(run, "RuntimeError",
                        Message("Please add a running MdH Core called '{name}'",
                                name))
                 ELSE IF is_global_search
                 THEN Raised(run, "RuntimeError", HARVEST_GLOBAL_SEARCH)
                 ELSE IF ~is_absolute_file_path(input_task_file, w)
                 THEN Raised(run, "RuntimeError", EXISTING_GRAPHQL_FILE)
                 ELSE ScheduleAndWait(name, input_task_file, blocking, run)

\* HarvestNode.execute in the installation w: the guards in the order of the
\* code, then the calls.  mdh_instance_is_global_search raises RuntimeError
\* when mdh cannot reach the installation.
HarvestOutcome(name, input_task_file, blocking, w) ==
    LET run == RunIn(w)
    IN  IF name = "" THEN Raised(run, "RuntimeError", ADD_RUNNING_CORE)
        ELSE IF ~w.available
        THEN Raised(run, "RuntimeError", EnvironmentErrorText)
        ELSE LET is_global_search == mdh_instance_is_global_search(name, w)
             IN  IF is_global_search
                 THEN Raised(run, "RuntimeError", HARVEST_GLOBAL_SEARCH)
                 ELSE IF ~mdh_instance_is_running(name, is_global_search, w)
                 THEN Raised(run, "RuntimeError",
                        Message("Please add a running MdH Core called '{name}'",
                                name))
                 ELSE IF ~is_absolute_file_path(input_task_file, w)
                 THEN Raised(run, "RuntimeError", EXISTING_GRAPHQL_FILE)
                 ELSE ScheduleAndWait(name, input_task_file, blocking, run)

\* The user edits a parameter of the Harvest node; the last run is dropped.
SetHarvestName(n) ==
    /\ harvest.name # n
    /\ harvest' = [harvest EXCEPT !.name = n, !.run = NoRun]
    /\ UNCHANGED <<creator, statistic, query_node, core_config, gs_config, util>>

SetTaskFile(p) ==
    /\ harvest.input_task_file # p
    /\ harvest' = [harvest EXCEPT !.input_task_file = p, !.run = NoRun]
    /\ UNCHANGED <<creator, statistic, query_node, core_config, gs_config, util>>

SetBlocking ==
    /\ harvest' = [harvest EXCEPT !.blocking = ~@, !.run = NoRun]
    /\ UNCHANGED <<creator, statistic, query_node, core_config, gs_config, util>>

\* HarvestNode.execute(exec_context)
ExecuteHarvest ==
    /\ \E w \in HarvestWorlds :
          harvest' = [harvest EXCEPT !.run =
              HarvestOutcome(harvest.name, harvest.input_task_file,
                             harvest.blocking, w)]
    /\ UNCHANGED <<creator, statistic, query_node, core_config, gs_config, util>>

(* --------------------------- FlowVariables ---------------------------- *)

\* class FlowVariables: the names it declares and their values (INSTANCE_
\* for INSTANCE, a reserved word here).
FlowVariables ==
    [ INSTANCE_ |-> "instance",
      IS_GLOBAL_SEARCH |-> "is_global_search",
      IGNORE_ERRORS |-> "ignore_errors",
      IGNORE_FAILED_CONS |-> "ignore_failed_connections",
      ONLY_COUNT |-> "only_count",
      INPUT_METADATA_FILE |-> "input_metadata_file",
      INPUT_QUERY_FILE |-> "input_query_file",
      INPUT_TASK_FILE |-> "input_task_file",
      DOWNLOAD_FORMAT |-> "download_format",
      OUTPUT_RESULT_FILE |-> "output_result_file",
      BLOCKING |-> "blocking",
      LIMIT |-> "limit",
      STATISTIC_SELECTION |-> "statistic_selection" ]

\* Whether FlowVariables.<name> evaluates; it raises AttributeError when not.
Declared(name) == name \in DOMAIN FlowVariables

\* raise AttributeError, as Python does for a name the class lacks.
RaisedAttributeError(run, name) ==
    Raised(run, "AttributeError", Message("FlowVariables", name))

(* ------------------ Global Search cores and arguments ----------------- *)

\* The characters of the class [a-zA-Z0-9-_]: letters, digits, '-' and '_'
\* (the hyphen after the range 0-9 is a literal).
IsNameChar(c) ==
    c \in {"a", "b", "c", "d", "e", "f", "g", "h", "i", "j", "k", "l", "m",
           "n", "o", "p", "q", "r", "s", "t", "u", "v", "w", "x", "y", "z",
           "A", "B", "C", "D", "E", "F", "G", "H", "I", "J", "K", "L", "M",
           "N", "O", "P", "Q", "R", "S", "T", "U", "V", "W", "X", "Y", "Z",
           "-", "_"} \/ IsDigit(c)

RECURSIVE SeparatorEnd(_, _)
\* [^a-zA-Z0-9-_]+ matched at i: the index after the longest run of
\* characters outside the class that starts at i.
SeparatorEnd(s, i) ==
    IF i <= Len(s) /\ ~IsNameChar(s[i]) THEN SeparatorEnd(s, i + 1) ELSE i

RECURSIVE ReSplitFrom(_, _, _)
\* re.split(r'[^a-zA-Z0-9-_]+', s) from index i, where the piece in hand
\* began at index start.
ReSplitFrom(s, start, i) ==
    IF i > Len(s) THEN << SubSeq(s, start, Len(s)) >>
    ELSE IF IsNameChar(s[i]) THEN ReSplitFrom(s, start, i + 1)
    ELSE LET next == SeparatorEnd(s, i)
         IN  << SubSeq(s, start, i - 1) >> \o ReSplitFrom(s, next, next)

\* re.split(r'[^a-zA-Z0-9-_]+', s)
ReSplit(s) == ReSplitFrom(s, 1, 1)

\* The pieces of re.split kept as they come.
CoreCandidatesUnfiltered(cores) == ReSplit(cores)

\* [core for core in re.split(...) if core != '']
CoreCandidates(cores) == SelectSeq(ReSplit(cores), LAMBDA core : core # <<>>)

\* split_global_search_cores(cores): the list, or RuntimeError when empty.
split_global_search_cores(cores) ==
    LET found == CoreCandidates(cores)
    IN  IF found = <<>>
        THEN [ raised |-> TRUE, cores |-> <<>>,
               error |-> [type |-> "RuntimeError", message |->
                   Message("Please provide a minimum of one MdH Core Instance",
                           "")] ]
        ELSE [ raised |-> FALSE, cores |-> found, error |-> NoError ]

\* update_global_search_args(kwargs, flow_variables): the exception it ends
\* with, or NoError when kwargs got its three entries.
update_global_search_args(flow_variables) ==
    IF FlowVariables.IGNORE_ERRORS \notin DOMAIN flow_variables
    THEN [type |-> "KeyError",
          message |-> Message(FlowVariables.IGNORE_ERRORS, "")]
    ELSE IF FlowVariables.IGNORE_FAILED_CONS \notin DOMAIN flow_variables
    THEN [type |-> "KeyError",
          message |-> Message(FlowVariables.IGNORE_FAILED_CONS, "")]
    ELSE IF ~Declared("SELECTED_CORES")
    THEN [type |-> "AttributeError",
          message |-> Message("FlowVariables", "SELECTED_CORES")]
    ELSE IF FlowVariables.SELECTED_CORES \notin DOMAIN flow_variables
    THEN [type |-> "KeyError",
          message |-> Message(FlowVariables.SELECTED_CORES, "")]
    ELSE split_global_search_cores(
             flow_variables[FlowVariables.SELECTED_CORES]).error

(* --------------------------- StatisticNode ---------------------------- *)

\* StatisticOptions: the member names.
StatisticOptions == {"FILETYPE", "MIMETYPE", "METADATA"}

\* The instance names a connection can carry.
ConnectedNames == CoreNames \cup GlobalSearchNames

\* mdh_connection.data: the instance alone, or with the error switches.
Connections ==
    { (FlowVariables.INSTANCE_ :> n) : n \in ConnectedNames }
    \cup
    { (FlowVariables.INSTANCE_ :> n) @@ (FlowVariables.IGNORE_ERRORS :> FALSE)
          @@ (FlowVariables.IGNORE_FAILED_CONS :> FALSE) :
        n \in ConnectedNames }

\* MetadataStatisticParameter at its defaults.
DefaultStatistic ==
    [ statistic_selection_param |-> "FILETYPE", limit |-> 0, run |-> NoRun ]

\* _get_statistic_method_and_param_type: the method of the module.
StatisticMethod(selection_param) ==
    IF selection_param = "FILETYPE" THEN "get_filetype"
    ELSE IF selection_param = "MIMETYPE" THEN "get_mimetype"
    ELSE "get_metadata"

\* The limit handed on as entered.
StatisticLimitAsEntered(lim) == PyInt(lim)

\* limit = self.parameter.limit if self.parameter.limit >= 1 else None
StatisticLimit(lim) == IF lim >= 1 THEN PyInt(lim) ELSE PyNone

\* StatisticNode.execute on the connection data in the installation w.  The
\* arguments of func are evaluated before func is called, and the Global
\* Search headers read FlowVariables.SELECTED_CORES.
StatisticOutcome(selection_param, lim, data, w) ==
    LET run == RunOn(data, w)
        instance == data[FlowVariables.INSTANCE_]
    IN  IF ~w.available
        THEN Raised(run, "RuntimeError", EnvironmentErrorText)
        ELSE
        LET is_global_search == mdh_instance_is_global_search(instance, w)
            statistic_module == IF is_global_search
                                THEN "global_search.statistic"
                                ELSE "core.statistic"
            func == <<statistic_module, StatisticMethod(selection_param)>>
            parameters == [limit |-> StatisticLimit(lim)]
        IN  IF ~mdh_instance_is_running(instance, is_global_search, w)
            THEN Raised(run, "RuntimeError",
                        ADD_RUNNING_INSTANCE_BY_NAME(instance))
            ELSE IF is_global_search
            THEN IF ~Declared("SELECTED_CORES")
                 THEN RaisedAttributeError(run, "SELECTED_CORES")
                 ELSE IF \E k \in {FlowVariables.SELECTED_CORES,
                                   FlowVariables.IGNORE_ERRORS,
                                   FlowVariables.IGNORE_FAILED_CONS} :
                            k \notin DOMAIN data
                 THEN Raised(run, "KeyError", Message("data", ""))
                 ELSE Returned(After(run, Call(func, instance, parameters)))
            ELSE Returned(After(run, Call(func, instance, parameters)))

\* The user edits a parameter of the Statistic node; the last run is dropped.
SetStatisticSelection(sel) ==
    /\ statistic.statistic_selection_param # sel
    /\ statistic' = [statistic EXCEPT !.statistic_selection_param = sel,
                                      !.run = NoRun]
    /\ UNCHANGED <<creator, harvest, query_node, core_config, gs_config, util>>

SetStatisticLimit(n) ==
    /\ statistic.limit # n
    /\ statistic' = [statistic EXCEPT !.limit = n, !.run = NoRun]
    /\ UNCHANGED <<creator, harvest, query_node, core_config, gs_config, util>>

\* StatisticNode.execute(exec_context, mdh_connection)
ExecuteStatistic ==
    /\ \E data \in Connections, w \in Instances :
          statistic' = [statistic EXCEPT !.run =
              StatisticOutcome(statistic.statistic_selection_param,
                               statistic.limit, data, w)]
    /\ UNCHANGED <<creator, harvest, query_node, core_config, gs_config, util>>

(* ---------------------------- query nodes ----------------------------- *)

\* The four query nodes; the first two take a GraphQL query file, the last
\* two a harvested file; the to-File ones stream the result into a file.
QueryNodes == {"MetadataQueryToFileNode", "MetadataQueryToStringNode",
               "FileMetadataToFileNode", "FileMetadataToStringNode"}
TakesQueryFile(node) ==
    node \in {"MetadataQueryToFileNode", "MetadataQueryToStringNode"}
WritesFile(node) ==
    node \in {"MetadataQueryToFileNode", "FileMetadataToFileNode"}

\* DownloadFormat of the client library (its values), and what a user or a
\* flow variable can put into download_format.
DownloadFormat == {"json", "csv"}
DownloadFormatValues == {"json", "pdf"}

\* mdh_download_format_exists(download_format)
mdh_download_format_exists(download_format) ==
    \E e \in DownloadFormat : e = download_format

\* exec_context.flow_variables of a query node: none, or those a Global
\* Search configuration hands down.
QueryFlowVariables ==
    { <<>>,
      (FlowVariables.INSTANCE_ :> "g") @@ (FlowVariables.IGNORE_ERRORS :> FALSE)
          @@ (FlowVariables.IGNORE_FAILED_CONS :> FALSE) }

\* What a query node meets: instances, and whether the absolute path is a file.
QueryWorlds ==
    { [i EXCEPT !.files = f] : i \in Instances, f \in SUBSET {AbsolutePath} }

\* A query node of the given kind with its parameters at their defaults.
DefaultQueryNode(node) ==
    [ node |-> node, name |-> "", input_file |-> <<>>,
      download_format |-> "json", output_result_file |-> <<>>,
      run |-> NoRun ]

\* mdh.<client>.query.query_via_file for a query file, .filepath for a
\* harvested file.
QueryFunction(node, client) ==
    << client, IF TakesQueryFile(node) THEN "query_via_file" ELSE "filepath" >>

\* The last step of execute: the Global Search arguments are collected and
\* the Global Search client is called, or the Core client is called.
Dispatch(node, name, input_file, is_global_search, run) ==
    IF is_global_search
    THEN LET err == update_global_search_args(run.input)
         IN  IF err # NoError THEN Raised(run, err.type, err.message)
             ELSE Returned(After(run,
                      Call(QueryFunction(node, "global_search.query"), name,
                           input_file)))
    ELSE Returned(After(run, Call(QueryFunction(node, "core.query"), name,
                                  input_file)))

\* execute of the four query nodes, on the flow variables it receives and in
\* the installation w.  The message of the running check reads self.core,
\* which no node has.
QueryOutcome(node, name, input_file, download_format, output_result_file, flow_variables, w) ==
    LET run == RunOn(flow_variables, w)
    IN  IF name = "" THEN Raised(run, "RuntimeError", ADD_RUNNING_INSTANCE)
        ELSE IF ~w.available
        THEN Raised(run, "RuntimeError", EnvironmentErrorText)
        ELSE
        LET is_global_search == mdh_instance_is_global_search(name, w)
        IN  IF ~mdh_instance_is_running(name, is_global_search, w)
            THEN Raised(run, "AttributeError", Message("self", "core"))
            ELSE IF TakesQueryFile(node) /\ ~is_absolute_file_path(input_file, w)
            THEN Raised(run, "RuntimeError", EXISTING_GRAPHQL_FILE)
            ELSE IF ~TakesQueryFile(node) /\ ~is_absolute(input_file)
            THEN Raised(run, "RuntimeError", QUERY_VALID_INPUT_FILE)
            ELSE IF WritesFile(node)
                    /\ ~mdh_download_format_exists(download_format)
            THEN Raised(run, "RuntimeError", QUERY_VALID_DOWNLOAD_FORMAT)
            ELSE IF WritesFile(node) /\ ~is_absolute(output_result_file)
            THEN Raised(run, "RuntimeError", QUERY_VALID_OUTPUT_FILE)
            ELSE Dispatch(node, name, input_file, is_global_search, run)

\* The user puts a query node of another kind into the workflow.
PlaceQueryNode(node) ==
    /\ query_node.node # node
    /\ query_node' = DefaultQueryNode(node)
    /\ UNCHANGED <<creator, harvest, statistic, core_config, gs_config, util>>

\* The user edits a parameter of the query node; the last run is dropped.
SetQueryName(n) ==
    /\ query_node.name # n
    /\ query_node' = [query_node EXCEPT !.name = n, !.run = NoRun]
    /\ UNCHANGED <<creator, harvest, statistic, core_config, gs_config, util>>

SetInputFile(p) ==
    /\ query_node.input_file # p
    /\ query_node' = [query_node EXCEPT !.input_file = p, !.run = NoRun]
    /\ UNCHANGED <<creator, harvest, statistic, core_config, gs_config, util>>

SetDownloadFormat(f) ==
    /\ WritesFile(query_node.node)
    /\ query_node.download_format # f
    /\ query_node' = [query_node EXCEPT !.download_format = f, !.run = NoRun]
    /\ UNCHANGED <<creator, harvest, statistic, core_config, gs_config, util>>

SetOutputFile(p) ==
    /\ WritesFile(query_node.node)
    /\ query_node.output_result_file # p
    /\ query_node' = [query_node EXCEPT !.output_result_file = p,
                                        !.run = NoRun]
    /\ UNCHANGED <<creator, harvest, statistic, core_config, gs_config, util>>

\* execute(exec_context) of the query node
ExecuteQuery ==
    /\ \E flow_variables \in QueryFlowVariables, w \in QueryWorlds :
          query_node' = [query_node EXCEPT !.run =
              QueryOutcome(query_node.node, query_node.name,
                           query_node.input_file, query_node.download_format,
                           query_node.output_result_file, flow_variables, w)]
    /\ UNCHANGED <<creator, harvest, statistic, core_config, gs_config, util>>

(* ------------------------ configuration nodes ------------------------- *)

\* What a configuration node meets: instances and the licence of each core.
ConfigWorlds ==
    { [i EXCEPT !.licences = l] :
        i \in Instances, l \in [CoreNames -> LicenceStates] }

\* CoreInstance.core at its default.
DefaultCoreConfig == [ core |-> "", run |-> NoRun ]

\* The licence warnings of a core, in the order of the two tests.
LicenceWarnings(core, license_) ==
    (IF ~license_.licenseData THEN <<ACTIVE_LICENSE_BY_NAME(core)>> ELSE <<>>)
    \o (IF ~license_.validKey THEN <<VALID_LICENSE_BY_NAME(core)>> ELSE <<>>)

\* A node that refuses a core whose licence is missing or invalid.
CoreConfigOutcomeStrict(core, w) ==
    LET run == RunIn(w)
    IN  IF core = "" THEN Raised(run, "RuntimeError", ADD_RUNNING_CORE)
        ELSE IF ~mdh_instance_is_running(core, FALSE, w)
        THEN Raised(run, "AttributeError", Message("self", "core"))
        ELSE LET warnings == LicenceWarnings(core, w.licences[core])
             IN  IF warnings # <<>>
                 THEN Raised(run, "RuntimeError", warnings[1])
                 ELSE Returned([run EXCEPT !.flow_variables =
                                   (FlowVariables.INSTANCE_ :> core)])

\* CoreConfigurationNode.execute in the installation w.  The message of the
\* running check reads self.core, which the node does not have.
CoreConfigOutcome(core, w) ==
    LET run == RunIn(w)
    IN  IF core = "" THEN Raised(run, "RuntimeError", ADD_RUNNING_CORE)
        ELSE IF ~mdh_instance_is_running(core, FALSE, w)
        THEN Raised(run, "AttributeError", Message("self", "core"))
        ELSE Returned([run EXCEPT
                 !.warnings = LicenceWarnings(core, w.licences[core]),
                 !.flow_variables = (FlowVariables.INSTANCE_ :> core)])

\* The user selects a core; the last run is dropped.
SetCore(c) ==
    /\ core_config.core # c
    /\ core_config' = [core |-> c, run |-> NoRun]
    /\ UNCHANGED <<creator, harvest, statistic, query_node, gs_config, util>>

\* CoreConfigurationNode.execute(exec_context)
ExecuteCoreConfig ==
    /\ \E w \in ConfigWorlds :
          core_config' = [core_config EXCEPT !.run =
              CoreConfigOutcome(core_config.core, w)]
    /\ UNCHANGED <<creator, harvest, statistic, query_node, gs_config, util>>

\* The characters of an instance name.
Chars(name) == IF name = "" THEN <<>> ELSE <<name>>

\* What a user puts into selected_cores.
SelectedCoresValues ==
    { <<>>, <<"c">>, <<"d">>, <<"c", ",", " ", "d">>, <<"d", ",", "c">>,
      <<",", " ">>, <<"c", "d">> }

\* GlobalSearchInstance and ErrorHandling at their defaults, where no core
\* ran when the extension was loaded.
DefaultGsConfig ==
    [ global_search |-> "", selected_cores |-> <<>>,
      ignore_errors |-> FALSE, ignore_failed_connections |-> FALSE,
      run |-> NoRun ]

RECURSIVE CoreLoop(_, _)
\* The loop over the selected cores: the error of the first core that does
\* not run, has no licence data or no valid key; NoError when none does.
CoreLoop(cores, w) ==
    IF cores = <<>> THEN NoError
    ELSE LET core == cores[1]
             named == {n \in w.running_cores : Chars(n) = core}
         IN  IF named = {}
             THEN [type |-> "RuntimeError", message |->
                   Message("Unable to match provided name '{core}' with any active MdH Core instance.",
                           core)]
             ELSE LET license_ == w.licences[CHOOSE n \in named : TRUE]
                  IN  IF ~license_.licenseData
                      THEN [type |-> "RuntimeError",
                            message |-> ACTIVE_LICENSE_BY_NAME(core)]
                      ELSE IF ~license_.validKey
                      THEN [type |-> "RuntimeError",
                            message |-> VALID_LICENSE_BY_NAME(core)]
                      ELSE CoreLoop(Tail(cores), w)

\* The four assignments to exec_context.flow_variables, in the order of the
\* code; the second one reads FlowVariables.SELECTED_CORES.
WriteFlowVariables(global_search, selected_cores, ignore_errors, ignore_failed_connections, run) ==
    LET first == [run EXCEPT !.flow_variables =
                      (FlowVariables.INSTANCE_ :> global_search)]
    IN  IF ~Declared("SELECTED_CORES")
        THEN RaisedAttributeError(first, "SELECTED_CORES")
        ELSE Returned([first EXCEPT !.flow_variables =
                 @ @@ (FlowVariables.SELECTED_CORES :> selected_cores)
                   @@ (FlowVariables.IGNORE_ERRORS :> ignore_errors)
                   @@ (FlowVariables.IGNORE_FAILED_CONS :>
                          ignore_failed_connections)])

\* GlobalSearchConfigurationNode.execute in the installation w.
GsConfigOutcome(global_search, selected_cores, ignore_errors, ignore_failed_connections, w) ==
    LET run == RunIn(w)
    IN  IF global_search = ""
        THEN Raised(run, "RuntimeError", ADD_RUNNING_GLOBAL_SEARCH)
        ELSE IF ~mdh_instance_is_running(global_search, TRUE, w)
        THEN Raised(run, "RuntimeError",
                 Message("Please add a running MdH Global Search called '{global_search}'",
                         global_search))
        ELSE
        LET split == split_global_search_cores(selected_cores)
        IN  IF split.raised
            THEN Raised(run, split.error.type, split.error.message)
            ELSE LET err == CoreLoop(split.cores, w)
                 IN  IF err # NoError
                     THEN Raised(run, err.type, err.message)
                     ELSE WriteFlowVariables(global_search, selected_cores,
                              ignore_errors, ignore_failed_connections, run)

\* The user edits a parameter of the Global Search configuration node; the
\* last run is dropped.
SetGlobalSearch(g) ==
    /\ gs_config.global_search # g
    /\ gs_config' = [gs_config EXCEPT !.global_search = g, !.run = NoRun]
    /\ UNCHANGED <<creator, harvest, statistic, query_node, core_config, util>>

SetSelectedCores(cores) ==
    /\ gs_config.selected_cores # cores
    /\ gs_config' = [gs_config EXCEPT !.selected_cores = cores, !.run = NoRun]
    /\ UNCHANGED <<creator, harvest, statistic, query_node, core_config, util>>

SetIgnoreErrors ==
    /\ gs_config' = [gs_config EXCEPT !.ignore_errors = ~@, !.run = NoRun]
    /\ UNCHANGED <<creator, harvest, statistic, query_node, core_config, util>>

SetIgnoreFailedConnections ==
    /\ gs_config' = [gs_config EXCEPT !.ignore_failed_connections = ~@,
                                      !.run = NoRun]
    /\ UNCHANGED <<creator, harvest, statistic, query_node, core_config, util>>

\* GlobalSearchConfigurationNode.execute(exec_context)
ExecuteGsConfig ==
    /\ \E w \in ConfigWorlds :
          gs_config' = [gs_config EXCEPT !.run =
              GsConfigOutcome(gs_config.global_search,
                              gs_config.selected_cores,
                              gs_config.ignore_errors,
                              gs_config.ignore_failed_connections, w)]
    /\ UNCHANGED <<creator, harvest, statistic, query_node, core_config, util>>

(* ------------------------- helper functions --------------------------- *)

\* No helper was called yet.
NoUtilCall == [fn |-> "", args |-> <<>>, result |-> <<>>]

\* Python values as Python writes them: None, two strs and the two bools.
None == "None"
ParameterValues == {None, "''", "'c'", "True", "False"}

\* The flow variables a context can hold under the two names looked up: each
\* absent or holding a value.
ContextKeys == {FlowVariables.INSTANCE_, FlowVariables.BLOCKING}
ContextFlowVariables ==
    UNION { [keys -> ParameterValues] : keys \in SUBSET ContextKeys }

\* A selection that asks the candidate first and the flow variable only when
\* the candidate is None.
get_parameter_candidate_first(candidate_variable, flow_variable, flow_variables) ==
    LET variable == IF candidate_variable # None THEN candidate_variable
                    ELSE IF flow_variable \in DOMAIN flow_variables
                    THEN flow_variables[flow_variable]
                    ELSE None
    IN  IF variable = None
        THEN [kind |-> "raised", type |-> "ValueError", value |-> None]
        ELSE [kind |-> "returned", type |-> "", value |-> variable]

\* get_parameter_or_flow_variable(candidate_variable, flow_variable, context)
\* with flow_variables = context.flow_variables.
get_parameter_or_flow_variable(candidate_variable, flow_variable, flow_variables) ==
    LET variable == IF flow_variable \in DOMAIN flow_variables
                    THEN flow_variables[flow_variable]
                    ELSE candidate_variable
    IN  IF variable = None
        THEN [kind |-> "raised", type |-> "ValueError", value |-> None]
        ELSE [kind |-> "returned", type |-> "", value |-> variable]

\* A configure step calls get_parameter_or_flow_variable.
CallGetParameter(candidate_variable, flow_variable, flow_variables) ==
    /\ util' = [ fn |-> "get_parameter_or_flow_variable",
                 args |-> <<candidate_variable, flow_variable, flow_variables>>,
                 result |-> get_parameter_or_flow_variable(
                      candidate_variable, flow_variable, flow_variables) ]
    /\ UNCHANGED <<creator, harvest, statistic, query_node, core_config,
                   gs_config>>

\* The characters and the strings handed to split_global_search_cores.
CoresChars == {"c", "D", "7", "-", "_", ",", " "}
CoresStrings == UNION { [1..n -> CoresChars] : n \in 0..MaxCoresLen }

\* A node calls split_global_search_cores.
CallSplitCores(cores) ==
    /\ util' = [ fn |-> "split_global_search_cores", args |-> <<cores>>,
                 result |-> split_global_search_cores(cores) ]
    /\ UNCHANGED <<creator, harvest, statistic, query_node, core_config,
                   gs_config>>

(* ------------------------------- ports -------------------------------- *)

\* Python objects as pickle sees them: None, bool, int, str, list, and dict
\* as its key/value pairs in insertion order (the keys are strs).
VNone == <<"None">>
VBool(b) == <<"bool", b>>
VInt(n) == <<"int", n>>
VStr(s) == <<"str", s>>
VList(items) == <<"list", items>>
VDict(items) == <<"dict", items>>

RECURSIVE Save(_)
RECURSIVE SaveAll(_)
RECURSIVE SaveItems(_)

\* A pickler that takes an empty list for None.
SaveListFalsy(items) ==
    IF items = <<>> THEN << <<"NONE">> >>
    ELSE IF Len(items) = 1
    THEN << <<"EMPTY_LIST">> >> \o Save(items[1]) \o << <<"APPEND">> >>
    ELSE << <<"EMPTY_LIST">>, <<"MARK">> >> \o SaveAll(items)
             \o << <<"APPENDS">> >>

\* pickle.dumps of a list: EMPTY_LIST, then the items with APPEND for one
\* item and MARK ... APPENDS for more.
SaveList(items) ==
    IF items = <<>> THEN << <<"EMPTY_LIST">> >>
    ELSE IF Len(items) = 1
    THEN << <<"EMPTY_LIST">> >> \o Save(items[1]) \o << <<"APPEND">> >>
    ELSE << <<"EMPTY_LIST">>, <<"MARK">> >> \o SaveAll(items)
             \o << <<"APPENDS">> >>

\* pickle.dumps of a dict: EMPTY_DICT, then key and value with SETITEM for
\* one pair and MARK ... SETITEMS for more.
SaveDict(items) ==
    IF items = <<>> THEN << <<"EMPTY_DICT">> >>
    ELSE IF Len(items) = 1
    THEN << <<"EMPTY_DICT">> >> \o SaveItems(items) \o << <<"SETITEM">> >>
    ELSE << <<"EMPTY_DICT">>, <<"MARK">> >> \o SaveItems(items)
             \o << <<"SETITEMS">> >>

\* The opcodes pickle writes for one object (protocol 4, without the memo).
Save(v) ==
    CASE v[1] = "None" -> << <<"NONE">> >>
      [] v[1] = "bool" -> << <<IF v[2] THEN "NEWTRUE" ELSE "NEWFALSE">> >>
      [] v[1] = "int" -> << <<"BININT1", v[2]>> >>
      [] v[1] = "str" -> << <<"SHORT_BINUNICODE", v[2]>> >>
      [] v[1] = "list" -> SaveList(v[2])
      [] v[1] = "dict" -> SaveDict(v[2])

SaveAll(items) ==
    IF items = <<>> THEN <<>> ELSE Save(items[1]) \o SaveAll(Tail(items))

SaveItems(items) ==
    IF items = <<>> THEN <<>>
    ELSE << <<"SHORT_BINUNICODE", items[1][1]>> >> \o Save(items[1][2])
            \o SaveItems(Tail(items))

\* pickle.dumps(obj)
dumps(obj) == << <<"PROTO", 4>> >> \o Save(obj) \o << <<"STOP">> >>

\* dict[key] = value
SetItem(items, key, value) ==
    IF \E i \in 1..Len(items) : items[i][1] = key
    THEN [i \in 1..Len(items) |->
             IF items[i][1] = key THEN <<key, value>> ELSE items[i]]
    ELSE Append(items, <<key, value>>)

RECURSIVE SetItems(_, _)
\* SETITEMS: the keys and values above the mark go into the dict by pairs.
SetItems(items, above) ==
    IF above = <<>> THEN items
    ELSE SetItems(SetItem(items, above[1][2], above[2]),
                  SubSeq(above, 3, Len(above)))

RECURSIVE Load(_, _, _, _)
\* The unpickler: opcode pc of code, on the stack and the stack of marks.
Load(code, pc, stack, metastack) ==
    LET op == code[pc]
        n == Len(stack)
        marked == metastack[Len(metastack)]
        unmarked == SubSeq(metastack, 1, Len(metastack) - 1)
        Push(v) == Load(code, pc + 1, Append(stack, v), metastack)
    IN  CASE op[1] = "PROTO" -> Load(code, pc + 1, stack, metastack)
          [] op[1] = "NONE" -> Push(VNone)
          [] op[1] = "NEWTRUE" -> Push(VBool(TRUE))
          [] op[1] = "NEWFALSE" -> Push(VBool(FALSE))
          [] op[1] = "BININT1" -> Push(VInt(op[2]))
          [] op[1] = "SHORT_BINUNICODE" -> Push(VStr(op[2]))
          [] op[1] = "EMPTY_LIST" -> Push(VList(<<>>))
          [] op[1] = "EMPTY_DICT" -> Push(VDict(<<>>))
          [] op[1] = "MARK" ->
                Load(code, pc + 1, <<>>, Append(metastack, stack))
          [] op[1] = "APPEND" ->
                Load(code, pc + 1,
                     Append(SubSeq(stack, 1, n - 2),
                            VList(Append(stack[n - 1][2], stack[n]))),
                     metastack)
          [] op[1] = "APPENDS" ->
                Load(code, pc + 1,
                     Append(SubSeq(marked, 1, Len(marked) - 1),
                            VList(marked[Len(marked)][2] \o stack)),
                     unmarked)
          [] op[1] = "SETITEM" ->
                Load(code, pc + 1,
                     Append(SubSeq(stack, 1, n - 3),
                            VDict(SetItem(stack[n - 2][2], stack[n - 1][2],
                                          stack[n]))),
                     metastack)
          [] op[1] = "SETITEMS" ->
                Load(code, pc + 1,
                     Append(SubSeq(marked, 1, Len(marked) - 1),
                            VDict(SetItems(marked[Len(marked)][2], stack))),
                     unmarked)
          [] op[1] = "STOP" -> stack[n]

\* pickle.loads(data)
loads(data) == Load(data, 1, <<>>, <<>>)

\* The two port objects, with the spec class of each.
PortTypes ==
    [ MdHMetadataQueryPortObject |-> "BinaryPortObjectSpec",
      MdHInstanceConnectionPortObject |->
          "MdHInstanceConnectionPortObjectSpec" ]

\* __init__(self, spec, data): super().__init__(spec); self._data = data
PortObject(spec, data) == [spec |-> spec, _data |-> data]

\* serialize(self)
serialize(self) == dumps(self._data)

\* deserialize(cls, spec, data)
deserialize(spec, data) == PortObject(spec, loads(data))

\* The data property.
PortData(self) == self._data

\* The dicts of query['filters'] carried by the port, and the lists of them.
FilterDicts ==
    { VDict(<< <<"tag", VStr("a")>>, <<"value_type", VStr("STRING")>>,
               <<"operation", VStr("EQUAL")>>, <<"target", VStr(t)>> >>) :
        t \in TargetValues }
FilterLists == UNION { [1..n -> FilterDicts] : n \in 0..MaxNumFilters }

\* The query descriptor as the dict execute builds.
Descriptor(fl, tags, lim, off, oc, filters) ==
    VDict(<< <<"filter_logic", VStr(fl)>>, <<"selected_tags", VList(tags)>>,
             <<"limit", lim>>, <<"offset", VInt(off)>>,
             <<"only_count", VBool(oc)>>, <<"filters", VList(filters)>> >>)

\* What a metadata query port carries: {FlowVariables.QUERY: query}.
QueryPortData ==
    { VDict(<< <<QUERY, Descriptor(fl, tags, lim, off, oc, filters)>> >>) :
        fl \in {"f0"},
        tags \in {<<>>, <<VStr("a")>>, <<VStr("a"), VStr("b")>>},
        lim \in {VNone} \cup {VInt(k) : k \in 1..MaxLimit},
        off \in {0}, oc \in BOOLEAN, filters \in FilterLists }

\* What an instance connection port carries: the instance, alone or with the
\* error switches.
ConnectionPortData ==
    { VDict(<< <<FlowVariables.INSTANCE_, VStr(n)>> >>) : n \in ConnectedNames }
    \cup
    { VDict(<< <<FlowVariables.INSTANCE_, VStr(n)>>,
               <<FlowVariables.IGNORE_ERRORS, VBool(e)>>,
               <<FlowVariables.IGNORE_FAILED_CONS, VBool(f)>> >>) :
        n \in ConnectedNames, e \in BOOLEAN, f \in BOOLEAN }

\* A node hands out a port object and the host stores it: serialize.
SendPort(type, data) ==
    /\ util' = [ fn |-> type, args |-> <<data>>,
                 result |-> [ storage |-> serialize(PortObject(PortTypes[type],
                                                               data)),
                              received |-> FALSE,
                              object |-> PortObject(PortTypes[type], data) ] ]
    /\ UNCHANGED <<creator, harvest, statistic, query_node, core_config,
                   gs_config>>

\* The host restores the port object for the next node: deserialize.
ReceivePort ==
    /\ util.fn \in DOMAIN PortTypes
    /\ ~util.result.received
    /\ util' = [util EXCEPT
                  !.result.received = TRUE,
                  !.result.object =
                      deserialize(PortTypes[util.fn], util.result.storage)]
    /\ UNCHANGED <<creator, harvest, statistic, query_node, core_config,
                   gs_config>>

(* ------------------- the other nodes at construction ------------------ *)

OthersInit ==
    /\ harvest = DefaultHarvest
    /\ statistic = DefaultStatistic
    /\ query_node = DefaultQueryNode("MetadataQueryToFileNode")
    /\ core_config = DefaultCoreConfig
    /\ gs_config = DefaultGsConfig
    /\ util = NoUtilCall

(* --------------------------- specifications --------------------------- *)

\* DEFAULT_SELECTED_TAGS of the mdh client library, joined with ', '.
DefaultSelectedTags == Join(<< <<"a">> >>, TagsSep)

\* The node after construction, with every parameter at its default.
Init ==
    /\ slots = [i \in SlotIds |-> DefaultFilter]
    /\ filter_logic = <<"f", "0">>
    /\ selected_tags = DefaultSelectedTags
    /\ limit = 0
    /\ offset = 0
    /\ only_count = FALSE
    /\ checked = NoCall
    /\ built = NoCall
    /\ field_edits = 0
    /\ failed = FALSE
    /\ OthersInit

\* Tags and filter logic are edited, checked and built.
Next ==
    \/ \E i \in SlotIds, t \in TagValues : SetTag(i, t)
    \/ \E c \in LogicChars : TypeFilterLogic(c)
    \/ EraseFilterLogic
    \/ Configure
    \/ Execute

Spec == Init /\ [][Next]_vars

\* Every field of the slots is edited, checked and built.
NextSlots ==
    \/ \E i \in SlotIds, t \in TagValues : SetTag(i, t)
    \/ \E i \in SlotIds, vt \in TagTypeOptions : SetValueType(i, vt)
    \/ \E i \in SlotIds, g \in Groups :
          \E op \in OperationOptions(g) : SetOperation(i, g, op)
    \/ \E i \in SlotIds, g \in Groups :
          \E t \in GroupTargets(g) : SetTarget(i, g, t)
    \/ Configure
    \/ Execute

RECURSIVE AllKeys(_)
\* 'f0 f1 ... f<n>': an expression that names every slot up to n.
AllKeys(n) ==
    IF n = 0 THEN FilterKey(0) ELSE AllKeys(n - 1) \o <<" ">> \o FilterKey(n)

\* The node with an expression that names every slot, all else at its default.
InitSlots ==
    /\ slots = [i \in SlotIds |-> DefaultFilter]
    /\ filter_logic = AllKeys(MaxNumFilters)
    /\ selected_tags = DefaultSelectedTags
    /\ limit = 0
    /\ offset = 0
    /\ only_count = FALSE
    /\ checked = NoCall
    /\ built = NoCall
    /\ field_edits = 0
    /\ failed = FALSE
    /\ OthersInit

SpecSlots == InitSlots /\ [][NextSlots]_vars

\* The query controls are edited and built.
NextControls ==
    \/ \E c \in TagsChars : TypeSelectedTags(c)
    \/ EraseSelectedTags
    \/ \E n \in 0..MaxLimit : SetLimit(n)
    \/ \E n \in 0..MaxLimit : SetOffset(n)
    \/ SetOnlyCount
    \/ Configure
    \/ Execute

SpecControls == Init /\ [][NextControls]_vars

\* Tags and filter logic are edited, checked and built, and the failures of
\* execute are remembered.
NextHistory ==
    \/ \E i \in SlotIds, t \in TagValues : SetTag(i, t)
    \/ \E c \in LogicChars : TypeFilterLogic(c)
    \/ EraseFilterLogic
    \/ Configure
    \/ ExecuteRecorded

SpecHistory == Init /\ [][NextHistory]_vars

\* The Harvest node is set up and run.
NextHarvest ==
    \/ \E n \in InstanceNames : SetHarvestName(n)
    \/ \E p \in Paths : SetTaskFile(p)
    \/ SetBlocking
    \/ ExecuteHarvest

SpecHarvest == Init /\ [][NextHarvest]_vars

\* The Statistic node is set up and run.
NextStatistic ==
    \/ \E sel \in StatisticOptions : SetStatisticSelection(sel)
    \/ \E n \in 0..MaxLimit : SetStatisticLimit(n)
    \/ ExecuteStatistic

SpecStatistic == Init /\ [][NextStatistic]_vars

\* A query node is placed, set up and run.
NextQuery ==
    \/ \E node \in QueryNodes : PlaceQueryNode(node)
    \/ \E n \in InstanceNames : SetQueryName(n)
    \/ \E p \in Paths : SetInputFile(p)
    \/ \E f \in DownloadFormatValues : SetDownloadFormat(f)
    \/ \E p \in Paths : SetOutputFile(p)
    \/ ExecuteQuery

SpecQuery == Init /\ [][NextQuery]_vars

\* The Global Search configuration node is set up and run.
NextGsConfig ==
    \/ \E g \in {""} \cup GlobalSearchNames : SetGlobalSearch(g)
    \/ \E cores \in SelectedCoresValues : SetSelectedCores(cores)
    \/ SetIgnoreErrors
    \/ SetIgnoreFailedConnections
    \/ ExecuteGsConfig

SpecGsConfig == Init /\ [][NextGsConfig]_vars

\* The Core configuration node is set up and run.
NextCoreConfig ==
    \/ \E c \in {""} \cup CoreNames : SetCore(c)
    \/ ExecuteCoreConfig

SpecCoreConfig == Init /\ [][NextCoreConfig]_vars

\* get_parameter_or_flow_variable is called on candidates and contexts.
NextParameter ==
    \E candidate_variable \in ParameterValues, flow_variable \in ContextKeys,
       flow_variables \in ContextFlowVariables :
        CallGetParameter(candidate_variable, flow_variable, flow_variables)

SpecParameter == Init /\ [][NextParameter]_vars

\* split_global_search_cores is called on strings.
NextCores == \E cores \in CoresStrings : CallSplitCores(cores)

SpecCores == Init /\ [][NextCores]_vars

\* Port objects are handed out, stored and restored.
NextPorts ==
    \/ \E data \in QueryPortData : SendPort("MdHMetadataQueryPortObject", data)
    \/ \E data \in ConnectionPortData :
          SendPort("MdHInstanceConnectionPortObject", data)
    \/ ReceivePort

SpecPorts == Init /\ [][NextPorts]_vars

(* ======================= properties of the node ======================= *)

\* The ids of the slots whose tag is not empty, and their attribute names.
ActiveIds == {i \in SlotIds : slots[i].tag # ""}
ActiveKeys == {FilterKey(i) : i \in ActiveIds}

\* The maximal runs 'f' digit+ of s, stated by position.
MaximalTokens(s) ==
    {SubSeq(s, p[1], p[2]) : p \in
        {q \in (1..Len(s)) \X (1..Len(s)) :
            /\ q[1] < q[2]
            /\ s[q[1]] = "f"
            /\ \A k \in (q[1] + 1)..q[2] : IsDigit(s[k])
            /\ (q[2] = Len(s) \/ ~IsDigit(s[q[2] + 1]))}}

\* The ids filter_logic names.
Referenced == MaximalTokens(filter_logic)

\* The position of active slot i among the active slots, in id order.
Rank(i) == Cardinality({j \in ActiveIds : j < i}) + 1

\* The query execute handed out.
BuiltQuery == built.data[QUERY]

\* C1: a build fails if and only if some active slot's id is not among the
\* ids extracted from filter_logic, the failure naming such a slot, and it
\* returns a descriptor otherwise.
C1_BuildFailsIffUnreferenced ==
    built.kind # "none" =>
        /\ (built.kind = "raised") <=> (ActiveKeys \ Referenced # {})
        /\ built.kind = "raised" =>
              built.message.filter_key \in ActiveKeys \ Referenced
        /\ ActiveKeys \subseteq Referenced => built.kind = "returned"

\* C1 witness: f0 and f2 are active, the expression is 'f0', and the build
\* failed naming f2.
C1_Witness ==
    /\ ActiveIds = {0, 2}
    /\ filter_logic = <<"f", "0">>
    /\ built.kind = "raised"
    /\ built.message.filter_key = FilterKey(2)

\* C2, as claimed: in every descriptor a build returns, the ids named in
\* filter_logic are exactly the ids of the active slots.
C2_ReferencedEqualsActive ==
    built.kind = "returned" => Referenced = ActiveKeys

\* C2, amended: in every descriptor a build returns, every active slot's id
\* is named in filter_logic (ids of other slots may be named too).
C2_ActiveAreReferenced ==
    built.kind = "returned" =>
        ActiveKeys \subseteq MaximalTokens(BuiltQuery.filter_logic)

\* C2 witness: a returned descriptor with an active slot and an id in
\* filter_logic that belongs to no active slot.
C2_Witness ==
    /\ built.kind = "returned"
    /\ ActiveIds # {}
    /\ MaximalTokens(BuiltQuery.filter_logic) \ ActiveKeys # {}

\* C3: with every active slot referenced and some referenced id not active,
\* the check returns without a warning and the build returns a descriptor
\* whose filter_logic is the one configured, the dangling id included.
C3_DanglingNotRejected ==
    (ActiveKeys \subseteq Referenced /\ Referenced \ ActiveKeys # {}) =>
        /\ checked.kind # "none" =>
              checked.kind = "returned" /\ checked.warnings = <<>>
        /\ built.kind # "none" =>
              /\ built.kind = "returned"
              /\ BuiltQuery.filter_logic = filter_logic
              /\ MaximalTokens(BuiltQuery.filter_logic) \ ActiveKeys # {}

\* C3 witness: only f0 is active, the expression 'f0f1' names the inactive
\* f1 as well, and both the check and the build went through.
C3_Witness ==
    /\ ActiveIds = {0}
    /\ filter_logic = <<"f", "0", "f", "1">>
    /\ checked.kind = "returned" /\ checked.warnings = <<>>
    /\ built.kind = "returned"

\* C4: on the same settings the check emits a missing-reference warning if
\* and only if the build raises the missing-reference failure.
C4_CheckWarnsIffBuildFails ==
    (checked.kind # "none" /\ built.kind # "none") =>
        (checked.warnings # <<>> <=> built.kind = "raised")

\* C4 witness: the check warned and the build failed on the same settings.
C4_Witness ==
    /\ checked.kind = "returned" /\ checked.warnings # <<>>
    /\ built.kind = "raised"

\* The attribute names _get_filters lists, in its order.
ListedKeys(sl) == [k \in 1..Len(get_filters(sl)) |-> get_filters(sl)[k].filter_key]

\* The slots with every field but the tag put back to its default.
TagsOnly(sl) == [i \in SlotIds |-> [DefaultFilter EXCEPT !.tag = sl[i].tag]]

\* C5: _get_filters lists exactly the slots with a non-empty tag, each once,
\* in ascending id order, each with its own parameter group, whatever the
\* other slots' tags and whatever value_type, operation and target are.
C5_ActiveSlotListing ==
    LET fs == get_filters(slots)
    IN  /\ {fs[k].filter_key : k \in 1..Len(fs)} = ActiveKeys
        /\ Len(fs) = Cardinality(ActiveIds)
        /\ \A i \in ActiveIds :
              /\ fs[Rank(i)].filter_key = FilterKey(i)
              /\ fs[Rank(i)].filter = slots[i]
        /\ ListedKeys(slots) = ListedKeys(TagsOnly(slots))

\* C5 witness: f1 is listed although f0 is empty, with a slot field edited
\* and the listing used by a call.
C5_Witness ==
    /\ slots[0].tag = "" /\ slots[1].tag # ""
    /\ field_edits > 0
    /\ checked.kind # "none"
    /\ ListedKeys(slots)[1] = FilterKey(1)

\* C6: the extracted ids are the set of the maximal runs 'f' digit+ of the
\* expression, whatever else the expression holds:
\* 'f0 or (f1 and not f2)' gives {f0, f1, f2}, 'f0' gives {f0}, '' gives {},
\* 'f10' gives {f10}, which does not hold f1.
C6_ExtractReferencedIds ==
    /\ FilterMatches(filter_logic) = MaximalTokens(filter_logic)
    /\ FilterMatches(<<"f", "0", " ", "o", "r", " ", "(", "f", "1", " ", "a", "n", "d", " ", "n", "o", "t", " ", "f", "2", ")">>)
          = {FilterKey(0), FilterKey(1), FilterKey(2)}
    /\ FilterMatches(<<"f", "0">>) = {FilterKey(0)}
    /\ FilterMatches(<<>>) = {}
    /\ FilterMatches(<<"f", "1", "0">>) = {FilterKey(10)}
    /\ FilterKey(1) \notin FilterMatches(<<"f", "1", "0">>)

\* C6 witness: the expression is 'f10', only f1 is active, and the check
\* warned about f1.
C6_Witness ==
    /\ filter_logic = <<"f", "1", "0">>
    /\ ActiveIds = {1}
    /\ checked.kind = "returned"
    /\ Len(checked.warnings) = 1
    /\ checked.warnings[1].filter_key = FilterKey(1)

\* C7: the filters list of a returned descriptor has one entry per active
\* slot and no other, in ascending slot id order, each with the tag and the
\* value_type of its slot.
C7_FiltersPerActiveSlot ==
    built.kind = "returned" =>
        /\ Len(BuiltQuery.filters) = Cardinality(ActiveIds)
        /\ \A i \in ActiveIds :
              /\ BuiltQuery.filters[Rank(i)].tag = slots[i].tag
              /\ BuiltQuery.filters[Rank(i)].value_type = slots[i].value_type

\* C7 witness: f0 and f2 are active, f1 is not, f2 is a NUMBER filter, and
\* the build returned.
C7_Witness ==
    /\ ActiveIds = {0, 2}
    /\ slots[2].value_type = "NUMBER"
    /\ built.kind = "returned"
    /\ Len(BuiltQuery.filters) = 2

\* The group of slot f that matches its value_type, by name.
MatchingGroup(f) ==
    CASE f.value_type = "STRING" -> f.string
      [] f.value_type = "NUMBER" -> f.number
      [] f.value_type = "DATE" -> f.date

\* Slot f with the two groups that do not match its value_type at their
\* defaults.
OnlyMatchingGroup(f) ==
    [ DefaultFilter EXCEPT
        !.tag = f.tag,
        !.value_type = f.value_type,
        !.string = IF f.value_type = "STRING" THEN f.string ELSE @,
        !.number = IF f.value_type = "NUMBER" THEN f.number ELSE @,
        !.date = IF f.value_type = "DATE" THEN f.date ELSE @ ]

C9_LimitZeroIsNone ==
    built.kind # "none" =>
        /\ built.kind = "returned" =>
              /\ limit = 0 => BuiltQuery.limit = PyNone
              /\ limit > 0 => BuiltQuery.limit = PyInt(limit)
        /\ (limit = 0 /\ ActiveKeys \subseteq Referenced) =>
              built.kind = "returned"

\* C9 witness: a descriptor returned for limit 0.
C9_Witness ==
    /\ limit = 0
    /\ built.kind = "returned"
    /\ BuiltQuery.limit = PyNone

\* C10: for a non-empty selected_tags a returned descriptor holds the pieces
\* of the input between the separators ', ', in order: joined with ', '
\* they give the input back, no piece holds the separator, and
\* 'FileName, FileSize' gives ['FileName', 'FileSize'].
C10_SelectedTagsSplit ==
    /\ (built.kind = "returned" /\ selected_tags # <<>>) =>
          /\ Join(BuiltQuery.selected_tags, TagsSep) = selected_tags
          /\ \A k \in 1..Len(BuiltQuery.selected_tags) :
                Find(BuiltQuery.selected_tags[k], TagsSep, 1) = 0
    /\ Split(<<"F", "i", "l", "e", "N", "a", "m", "e", ",", " ", "F", "i", "l", "e", "S", "i", "z", "e">>, TagsSep)
          = << <<"F", "i", "l", "e", "N", "a", "m", "e">>,
               <<"F", "i", "l", "e", "S", "i", "z", "e">> >>

\* C10 witness: 'a, a' was built into ['a', 'a'], the duplicate kept.
C10_Witness ==
    /\ selected_tags = <<"a", ",", " ", "a">>
    /\ built.kind = "returned"
    /\ BuiltQuery.selected_tags = << <<"a">>, <<"a">> >>

\* C11: a build with the empty selected_tags input '' yields an empty
\* selected_tags sequence [] in the descriptor.
C11_EmptySelectedTagsGiveNone ==
    (built.kind = "returned" /\ selected_tags = <<>>) =>
        BuiltQuery.selected_tags = <<>>

\* The lowest id of an active slot that filter_logic does not name.
LowestUnreferenced ==
    CHOOSE i \in ActiveIds :
        /\ FilterKey(i) \notin Referenced
        /\ \A j \in ActiveIds : FilterKey(j) \notin Referenced => i <= j

\* C13: a build ends in exactly one of two ways: it returns a complete
\* descriptor and no error, or it fails with an error naming the lowest
\* active slot that filter_logic does not name, and then hands out no
\* descriptor, not even a partial one.
C13_DescriptorOrFirstError ==
    built.kind # "none" =>
        /\ built.kind \in {"returned", "raised"}
        /\ built.kind = "raised" =>
              /\ ActiveKeys \ Referenced # {}
              /\ built.message.filter_key = FilterKey(LowestUnreferenced)
              /\ built.message.filter_logic = filter_logic
              /\ built.data = NoCall.data
        /\ built.kind = "returned" =>
              /\ built.message = NoMessage
              /\ DOMAIN BuiltQuery = { "filter_logic", "selected_tags", "limit",
                                       "offset", "only_count", "filters" }
              /\ Len(BuiltQuery.filters) = Cardinality(ActiveIds)

\* C13 witness: f0, f1 and f2 are active, the expression names f0 alone, and
\* the build failed naming f1, the lower of the two slots left out, with no
\* filter handed out.
C13_Witness ==
    /\ ActiveIds = {0, 1, 2}
    /\ filter_logic = <<"f", "0">>
    /\ built.kind = "raised"
    /\ built.message.filter_key = FilterKey(1)
    /\ built.data[QUERY].filters = <<>>

\* C14: configure never blocks: whatever the slots and filter_logic, active
\* slots that filter_logic does not name included, it raises nothing and
\* returns the port spec.
C14_CheckNeverBlocks ==
    checked.kind # "none" =>
        /\ checked.kind = "returned"
        /\ checked.message = NoMessage

\* C14 witness: configure returned although an active slot is not named.
C14_Witness ==
    /\ ActiveKeys \ Referenced # {}
    /\ checked.kind = "returned"
    /\ Len(checked.warnings) > 0

\* The slots the warnings of the last configure call name.
WarnedKeys == {checked.warnings[k].filter_key : k \in 1..Len(checked.warnings)}

\* C15: one check reports exactly one warning for each active slot that
\* filter_logic does not name and none for a named or an inactive slot: as
\* many warnings as such slots, each naming its slot.
C15_OneWarningPerUnreferenced ==
    checked.kind # "none" =>
        /\ Len(checked.warnings) = Cardinality(ActiveKeys \ Referenced)
        /\ WarnedKeys = ActiveKeys \ Referenced
        /\ \A k \in 1..Len(checked.warnings) :
              checked.warnings[k].filter_logic = filter_logic

\* C15 witness: f0, f1 and f2 are active, the expression names f1 alone, and
\* the check gave two warnings, for f0 and for f2.
C15_Witness ==
    /\ ActiveIds = {0, 1, 2}
    /\ filter_logic = <<"f", "1">>
    /\ Len(checked.warnings) = 2
    /\ checked.warnings[1].filter_key = FilterKey(0)
    /\ checked.warnings[2].filter_key = FilterKey(2)

\* Expressions with leading, trailing and doubled blanks, all naming f0.
LogicSamples ==
    { <<" ", "f", "0">>, <<"f", "0", " ">>, <<" ", "f", "0", " ", " ">>,
      <<"f", "0", " ", " ", "f", "1">> }

\* C16: the filter_logic of a returned descriptor is the configured string,
\* character for character (blanks are neither trimmed nor merged), and its
\* offset and only_count are the configured values.
C16_ExpressionAndPagingUnchanged ==
    /\ built.kind = "returned" =>
          /\ BuiltQuery.filter_logic = filter_logic
          /\ BuiltQuery.offset = offset
          /\ BuiltQuery.only_count = only_count
    /\ \A fl \in LogicSamples :
          LET out == ExecuteOutcome([slots EXCEPT ![0].tag = "a"], fl,
                                    selected_tags, limit, offset, only_count)
          IN  /\ out.kind = "returned"
              /\ out.data[QUERY].filter_logic = fl
              /\ out.data[QUERY].offset = offset
              /\ out.data[QUERY].only_count = only_count

\* C16 witness: a descriptor returned with a positive offset and only_count
\* set, both as configured.
C16_Witness ==
    /\ offset = MaxLimit
    /\ only_count = TRUE
    /\ built.kind = "returned"
    /\ BuiltQuery.offset = MaxLimit
    /\ BuiltQuery.only_count = TRUE
    /\ BuiltQuery.filter_logic = <<"f", "0">>

\* The build of f0 alone, set up as slot f, under the expression 'f0', all
\* else at its default.
BuildOfSlot(f) ==
    ExecuteOutcome([i \in SlotIds |-> IF i = 0 THEN f ELSE DefaultFilter],
                   <<"f", "0">>, DefaultSelectedTags, 0, 0, FALSE)

\* Two builds of one slot: 'greater' with a non-numeric target on a NUMBER
\* slot, and 'exists', which uses no target, with one.
TargetsCarried ==
    LET greater == BuildOfSlot(
                     [DefaultFilter EXCEPT !.tag = "a", !.value_type = "NUMBER",
                        !.number = [operation |-> "VALUE_IS_GREATER", target |-> "x"]])
        exists == BuildOfSlot(
                     [DefaultFilter EXCEPT !.tag = "a",
                        !.string = [operation |-> "TAG_EXISTS", target |-> "x"]])
    IN  /\ greater.kind = "returned"
        /\ greater.data[QUERY].filters[1].target = "x"
        /\ exists.kind = "returned"
        /\ exists.data[QUERY].filters[1].target = "x"

\* C17: a build never validates a target.  Each active slot's target goes
\* into the descriptor as its string form, whatever the operation; a build
\* with every active slot named succeeds with an empty target under
\* 'contains', with a non-numeric target on a NUMBER slot, and emits the
\* target also under 'exists', which uses none.
C17_TargetNotValidated ==
    /\ built.kind # "none" => built.kind = "returned"
    /\ built.kind = "returned" =>
          \A i \in ActiveIds :
              /\ "target" \in DOMAIN BuiltQuery.filters[Rank(i)]
              /\ BuiltQuery.filters[Rank(i)].target
                    = PyStr(GroupName(slots[i]), MatchingGroup(slots[i]).target)
    /\ TargetsCarried

\* C17 witness: f0 is active with 'contains' and an empty target, and the
\* build returned a descriptor carrying the empty target.
C17_Witness ==
    /\ slots[0].tag # ""
    /\ slots[0].value_type = "STRING"
    /\ slots[0].string = [operation |-> "VALUE_CONTAINS", target |-> ""]
    /\ built.kind = "returned"
    /\ BuiltQuery.filters[1].operation = "CONTAINS"
    /\ BuiltQuery.filters[1].target = ""

\* C18, as claimed: the node holds at most _MAX_NUM_FILTERS slots, with the
\* ids 0 .. _MAX_NUM_FILTERS - 1, and no descriptor holds more than
\* _MAX_NUM_FILTERS filters.
C18_AtMostMaxNumFilters ==
    /\ \A i \in DOMAIN slots : i < MaxNumFilters
    /\ Cardinality(DOMAIN slots) <= MaxNumFilters
    /\ built.kind = "returned" => Len(BuiltQuery.filters) <= MaxNumFilters

\* The protocol codes of the operations a group offers.
CodesOf(g) == {KnimeToMdHOperationsMap[op] : op \in OperationOptions(g)}

\* Every operation a group offers has a protocol code, and the codes of the
\* three groups are those of the three value types.
OperationsHaveCodes ==
    /\ \A g \in Groups : \A op \in OperationOptions(g) :
          op \in DOMAIN KnimeToMdHOperationsMap
    /\ CodesOf("string") = { "EXISTS", "NOT_EXISTS", "EMPTY", "NOT_EMPTY",
                             "CONTAINS", "NOT_CONTAINS", "EQUAL", "NOT_EQUAL" }
    /\ CodesOf("number") = { "EXISTS", "NOT_EXISTS", "EMPTY", "NOT_EMPTY",
                             "EQUAL", "NOT_EQUAL", "GREATER", "SMALLER" }
    /\ CodesOf("date") = { "EMPTY", "NOT_EMPTY", "EQUAL", "NOT_EQUAL",
                           "GREATER", "SMALLER" }
    /\ \A g \in Groups :
          Cardinality(CodesOf(g)) = Cardinality(OperationOptions(g))

\* C19: the operations a slot offers are those of its value type: STRING
\* exists, not-exists, empty, not-empty, contains, not-contains, equal,
\* not-equal; NUMBER exists, not-exists, empty, not-empty, equal, not-equal,
\* greater, smaller; DATE empty, not-empty, equal, not-equal, greater,
\* smaller.  Each has a protocol code, each group of each slot holds one of
\* its own operations, and a build never fails on resolving one.
C19_OperationsPerValueType ==
    /\ OperationsHaveCodes
    /\ \A i \in SlotIds : \A g \in Groups :
          GroupOf(slots[i], g).operation \in OperationOptions(g)
    /\ built.kind # "none" =>
          /\ built.kind = "returned"
          /\ \A i \in ActiveIds :
                BuiltQuery.filters[Rank(i)].operation \in CodesOf(GroupName(slots[i]))

\* C19 witness: f0 is an active DATE filter and the descriptor carries the
\* date group's operation, EQUAL.
C19_Witness ==
    /\ slots[0].tag # ""
    /\ slots[0].value_type = "DATE"
    /\ built.kind = "returned"
    /\ BuiltQuery.filters[1].value_type = "DATE"
    /\ BuiltQuery.filters[1].operation = "EQUAL"

\* A call has just handed out a result.
CallEnded ==
    \/ checked' # checked /\ checked'.kind # "none"
    \/ built' # built /\ built'.kind # "none"

\* C20: configure and execute leave every slot field, filter_logic,
\* selected_tags, limit, offset and only_count as they were, and nothing is
\* carried from one call to the next: after any sequence of edits, checks
\* and builds, failed ones included, the result of a build is that of a
\* build on the current settings alone, and so is the result of a check.
C20_NoSideEffectsNoMemory ==
    /\ [][CallEnded => UNCHANGED settings]_vars
    /\ [](built.kind # "none" =>
             built = ExecuteOutcome(slots, filter_logic, selected_tags, limit,
                                    offset, only_count))
    /\ [](checked.kind # "none" => checked = ConfigureOutcome(slots, filter_logic))

\* C20 witness: a build failed earlier, the settings were changed since, and
\* the build on the current settings, with an active slot, returned.
C20_Witness ==
    /\ failed
    /\ ActiveIds # {}
    /\ checked.kind = "returned"
    /\ built.kind = "returned"
    /\ Len(BuiltQuery.filters) > 0

(* ==================== properties of the other nodes =================== *)

\* The Harvest node ran on its current parameters.
HarvestRan == harvest.run.kind # "none"

\* The calls of schedule_add the last run of the Harvest node made.
ScheduleCalls ==
    SelectSeq(harvest.run.calls, LAMBDA c : c.fn = schedule_add)

\* The installation lists the name of the Harvest node as a Global Search.
HarvestOnGlobalSearch ==
    /\ harvest.name # ""
    /\ harvest.run.world.available
    /\ harvest.name \in harvest.run.world.global_searches

\* One of the four obstacles of the Harvest node is present.
HarvestObstacle ==
    LET w == harvest.run.world
    IN  \/ harvest.name = ""
        \/ HarvestOnGlobalSearch
        \/ ~(w.available /\ harvest.name \in w.running_cores)
        \/ ~(harvest.input_task_file = AbsolutePath /\ AbsolutePath \in w.files)

\* C21: HarvestNode.execute never calls schedule_add when the instance name
\* is empty, the instance is a Global Search, the instance is not a running
\* Core, or the task file is not an absolute path to an existing file: it
\* fails in each of these cases, and a Global Search is rejected with the
\* 'Harvest tasks cannot be executed on a MdH Global Search' error whether or
\* not it runs.
C21_NoScheduleBehindGuards ==
    HarvestRan =>
        /\ HarvestObstacle =>
              harvest.run.kind = "raised" /\ ScheduleCalls = <<>>
        /\ HarvestOnGlobalSearch =>
              harvest.run.error =
                  [type |-> "RuntimeError", message |-> HARVEST_GLOBAL_SEARCH]

\* A stopped Global Search was named and rejected as a Global Search.
C21_Witness ==
    /\ HarvestRan
    /\ HarvestOnGlobalSearch
    /\ harvest.name \notin harvest.run.world.running_global_searches
    /\ harvest.run.error.message = HARVEST_GLOBAL_SEARCH
    /\ ScheduleCalls = <<>>

\* C22: when blocking is set, HarvestNode.execute calls active_wait on
\* exactly the task id schedule_add returned, after schedule_add and before
\* it returns; when blocking is not set it returns after schedule_add
\* without waiting.
C22_WaitsOnScheduledTask ==
    (HarvestRan /\ harvest.run.kind = "returned") =>
        LET schedule == Call(schedule_add, harvest.name,
                             harvest.input_task_file)
            wait == Call(active_wait, harvest.name,
                         harvest.run.world.task_id)
        IN  harvest.run.calls =
                IF harvest.blocking THEN <<schedule, wait>> ELSE <<schedule>>

\* A blocking run waited on a task that is not the first one.
C22_Witness ==
    /\ HarvestRan
    /\ harvest.blocking
    /\ harvest.run.kind = "returned"
    /\ harvest.run.world.task_id # 1
    /\ Len(harvest.run.calls) = 2
    /\ harvest.run.calls[2].arg = harvest.run.world.task_id

\* The Statistic node ran on its current parameters.
StatisticRan == statistic.run.kind # "none"

\* The instance of the last run of the Statistic node is a core that runs.
StatisticOnRunningCore ==
    LET w == statistic.run.world
        instance == statistic.run.input["instance"]
    IN  /\ w.available
        /\ instance \notin w.global_searches
        /\ instance \in w.running_cores

\* C23: in StatisticNode.execute a limit of zero asks for all entries (the
\* client is called with limit = None) and every limit >= 1 reaches the
\* client unchanged; a core that runs is called once.
C23_StatisticLimit ==
    StatisticRan =>
        /\ \A k \in 1..Len(statistic.run.calls) :
              statistic.run.calls[k].arg.limit =
                  IF statistic.limit = 0 THEN PyNone
                  ELSE PyInt(statistic.limit)
        /\ StatisticOnRunningCore => Len(statistic.run.calls) = 1

\* A run with limit zero called the client with no limit.
C23_Witness ==
    /\ StatisticRan
    /\ statistic.limit = 0
    /\ Len(statistic.run.calls) = 1
    /\ statistic.run.calls[1].arg.limit = PyNone

\* The query node ran on its current parameters.
QueryRan == query_node.run.kind # "none"

\* The installation lists the instance of the query node as a Global Search.
QueryOnGlobalSearch ==
    /\ query_node.run.world.available
    /\ query_node.name \in query_node.run.world.global_searches

\* All the guards the query node has hold in the installation of its run.
QueryGuards ==
    LET w == query_node.run.world
        p == query_node.input_file
        absolute(path) == path = AbsolutePath
    IN  /\ query_node.name # ""
        /\ w.available
        /\ IF QueryOnGlobalSearch
           THEN query_node.name \in w.running_global_searches
           ELSE query_node.name \in w.running_cores
        /\ absolute(p)
        /\ TakesQueryFile(query_node.node) => p \in w.files
        /\ WritesFile(query_node.node) =>
              /\ query_node.download_format \in DownloadFormat
              /\ absolute(query_node.output_result_file)

\* C24: a query node dispatches no query unless all its guards hold (name
\* not empty, instance running, input file valid, and for the to-File nodes
\* a supported download format and an absolute output path); when all hold
\* it makes exactly one query call, to the Global Search client for a
\* Global Search and to the Core client otherwise.
C24_OneQueryBehindGuards ==
    QueryRan =>
        /\ ~QueryGuards => query_node.run.calls = <<>>
        /\ QueryGuards =>
              /\ Len(query_node.run.calls) = 1
              /\ query_node.run.calls[1].fn[1] =
                    IF QueryOnGlobalSearch THEN "global_search.query"
                    ELSE "core.query"

\* The maximal runs of characters of [a-zA-Z0-9-_] in s, as pairs of the
\* first and the last index, and the k-th of them from the left.
NameRuns(s) ==
    { <<a, b>> \in (1..Len(s)) \X (1..Len(s)) :
        /\ a <= b
        /\ \A i \in a..b : IsNameChar(s[i])
        /\ a > 1 => ~IsNameChar(s[a - 1])
        /\ b < Len(s) => ~IsNameChar(s[b + 1]) }
NthRun(s, k) ==
    CHOOSE r \in NameRuns(s) :
        Cardinality({q \in NameRuns(s) : q[1] <= r[1]}) = k

\* The Global Search configuration node ran on its current parameters.
GsConfigRan == gs_config.run.kind # "none"

\* What the claim asks of a Global Search configuration: the name is given
\* and runs, a core is named, and every named core runs with licence data
\* and a valid key.
GsConfigValid ==
    LET w == gs_config.run.world
        s == gs_config.selected_cores
    IN  /\ gs_config.global_search # ""
        /\ w.available
        /\ gs_config.global_search \in w.running_global_searches
        /\ NameRuns(s) # {}
        /\ \A r \in NameRuns(s) :
              \E n \in w.running_cores :
                 /\ SubSeq(s, r[1], r[2]) = <<n>>
                 /\ w.licences[n] = ValidLicence

\* C25: GlobalSearchConfigurationNode.execute writes its four flow variables
\* all or none: only when the Global Search is named and runs, a core is
\* named and every named core runs with licence data and a valid key; when
\* execute fails, no flow variable has been written.
C25_FlowVariablesAllOrNone ==
    GsConfigRan =>
        LET written == DOMAIN gs_config.run.flow_variables
        IN  /\ Cardinality(written) \in {0, 4}
            /\ written # {} => GsConfigValid
            /\ GsConfigValid => written # {}
            /\ gs_config.run.kind = "raised" => written = {}

\* The Core configuration node ran on its current parameters.
CoreConfigRan == core_config.run.kind # "none"

\* The selected core is named and runs.
CoreSelectedRuns ==
    /\ core_config.core # ""
    /\ core_config.run.world.available
    /\ core_config.core \in core_config.run.world.running_cores

\* C26: CoreConfigurationNode.execute sets the 'instance' flow variable to
\* the selected core if and only if the core name is not empty and the core
\* runs; a missing or invalid licence only warns, and an empty or stopped
\* core makes execute fail with the flow variable unset.
C26_InstanceSetIffCoreRuns ==
    CoreConfigRan =>
        LET fv == core_config.run.flow_variables
        IN  /\ CoreSelectedRuns =>
                 /\ core_config.run.kind = "returned"
                 /\ fv = ("instance" :> core_config.core)
            /\ ~CoreSelectedRuns =>
                 /\ core_config.run.kind = "raised"
                 /\ fv = <<>>

\* A running core without licence data and without a valid key was set, with
\* two warnings.
C26_Witness ==
    /\ CoreConfigRan
    /\ CoreSelectedRuns
    /\ core_config.run.world.licences[core_config.core] =
          [licenseData |-> FALSE, validKey |-> FALSE]
    /\ Len(core_config.run.warnings) = 2
    /\ core_config.run.flow_variables = ("instance" :> core_config.core)

\* get_parameter_or_flow_variable was called.
ParameterCalled == util.fn = "get_parameter_or_flow_variable"

\* C27: get_parameter_or_flow_variable returns the flow variable's value
\* whenever the flow variable is in the context, whatever the candidate is,
\* and the candidate when it is not; it raises ValueError exactly when the
\* value so selected is None, and never returns None.
C27_FlowVariableOverridesCandidate ==
    ParameterCalled =>
        LET candidate == util.args[1]
            name == util.args[2]
            present == name \in DOMAIN util.args[3]
            selected == IF present THEN util.args[3][name] ELSE candidate
        IN  /\ (util.result.kind = "raised") <=> (selected = None)
            /\ util.result.kind = "raised" => util.result.type = "ValueError"
            /\ util.result.kind = "returned" =>
                  /\ util.result.value = selected
                  /\ util.result.value # None

\* A flow variable replaced a candidate that was not empty.
C27_Witness ==
    /\ ParameterCalled
    /\ util.args[1] = "'c'"
    /\ util.args[2] \in DOMAIN util.args[3]
    /\ util.args[3][util.args[2]] = "True"
    /\ util.result.kind = "returned"
    /\ util.result.value = "True"

\* split_global_search_cores was called.
SplitCalled == util.fn = "split_global_search_cores"

\* C28: split_global_search_cores returns, in order of appearance, the
\* maximal runs of characters of [a-zA-Z0-9-_] in its input; the result is
\* never empty and holds no empty string; it raises RuntimeError exactly
\* when the input has no such character.
C28_MaximalRunsInOrder ==
    SplitCalled =>
        LET s == util.args[1]
            n == Cardinality(NameRuns(s))
        IN  /\ util.result.raised <=> (\A i \in 1..Len(s) : ~IsNameChar(s[i]))
            /\ util.result.raised => util.result.error.type = "RuntimeError"
            /\ ~util.result.raised =>
                  /\ util.result.cores # <<>>
                  /\ Len(util.result.cores) = n
                  /\ \A k \in 1..n :
                        /\ util.result.cores[k] # <<>>
                        /\ util.result.cores[k] =
                              SubSeq(s, NthRun(s, k)[1], NthRun(s, k)[2])

\* Two names came out of a string that begins with a separator.
C28_Witness ==
    /\ SplitCalled
    /\ Len(util.args[1]) = 3
    /\ ~IsNameChar(util.args[1][1])
    /\ ~IsNameChar(util.args[1][3])
    /\ util.result.cores = << <<util.args[1][2]>> >>

\* A port object was stored and restored.
PortReceived == util.fn \in DOMAIN PortTypes /\ util.result.received

\* C29: port objects round-trip: for both port objects,
\* deserialize(spec, obj.serialize()).data equals obj.data, for every query
\* descriptor and connection dictionary, a descriptor with limit None and an
\* empty filters list included.
C29_PortRoundTrip ==
    PortReceived =>
        /\ PortData(util.result.object) = util.args[1]
        /\ util.result.object.spec = PortTypes[util.fn]

\* A descriptor with limit None and no filters came back as it was sent.
C29_Witness ==
    /\ PortReceived
    /\ util.fn = "MdHMetadataQueryPortObject"
    /\ util.args[1] =
          VDict(<< <<QUERY, Descriptor("f0", <<>>, VNone, 0, FALSE, <<>>)>> >>)
    /\ PortData(util.result.object) = util.args[1]

====
